---- MODULE Spec2Model ----
(***************************************************************************)
(* Verification model of the Breezy Desktop XFCE4 renderer                 *)
(* (src/xfce4/renderer): the capture thread, the render thread, the main   *)
(* thread's start-up and teardown, the single-slot DMA-BUF handoff, and    *)
(* the shared-memory pose/config reader with its parity gate.              *)
(***************************************************************************)
EXTENDS Integers, Sequences, FiniteSets, TLC

(***************************************************************************)
(* Bounds of the model.                                                    *)
(***************************************************************************)
\* number of DMA-BUF descriptors the capture thread may export in one run
MaxExports == 2
\* number of distinct buffer identities the compositor hands out
MaxFb == 2
\* number of distinct complete images the external driver writes
MaxImage == 1

(***************************************************************************)
(* Program constants.                                                      *)
(***************************************************************************)
RING_BUFFER_SIZE == 3
DATA_LAYOUT_VERSION == 5
OFFSET_VERSION == 0
OFFSET_ENABLED == 1
OFFSET_LOOK_AHEAD_CFG == 2
OFFSET_DISPLAY_RES == 18
OFFSET_DISPLAY_FOV == 26
OFFSET_LENS_DISTANCE_RATIO == 30
OFFSET_SBS_ENABLED == 34
OFFSET_CUSTOM_BANNER_ENABLED == 35
OFFSET_SMOOTH_FOLLOW_ENABLED == 36
OFFSET_SMOOTH_FOLLOW_ORIGIN_DATA == 37
OFFSET_POSE_POSITION == 101
OFFSET_EPOCH_MS == 113
OFFSET_POSE_ORIENTATION == 121
OFFSET_IMU_PARITY_BYTE == 185
\* the config refresh period of render_thread_func, in milliseconds
CONFIG_REFRESH_MS == 1000

\* size of the driver's segment: the parity byte is its last byte
ShmSize == OFFSET_IMU_PARITY_BYTE + 1
Byte == 0..255
NO_FD == -1
EGL_NO_IMAGE_KHR == 0
EGL_NO_DISPLAY == 0

(***************************************************************************)
(* Memory.  A byte array is held as the set of its non-zero bytes, each a  *)
(* pair <<offset, value>>; every other offset holds 0.                     *)
(***************************************************************************)
ByteAt(data, i) ==
    LET hits == {p \in data : p[1] = i}
    IN IF hits = {} THEN 0 ELSE (CHOOSE p \in hits : TRUE)[2]

StoreByte(data, i, v) ==
    {p \in data : p[1] # i} \cup (IF v = 0 THEN {} ELSE {<<i, v>>})

\* memcpy(dst, &data[off], n): the n bytes starting at off, re-based to 0
Bytes(data, off, n) ==
    {<<p[1] - off, p[2]>> : p \in {q \in data : q[1] \in off..(off + n - 1)}}

\* an array of zero bytes
ZeroBytes == {}

\* the C "^" on two uint8_t
RECURSIVE BitXor(_, _)
BitXor(a, b) ==
    IF a = 0 THEN b
    ELSE IF b = 0 THEN a
    ELSE (((a % 2) + (b % 2)) % 2) + (2 * BitXor(a \div 2, b \div 2))

(***************************************************************************)
(* imu_reader.c: calculate_parity, read_latest_imu, read_device_config,    *)
(* as functions of the mapped bytes (a read during which the segment does  *)
(* not change).                                                            *)
(***************************************************************************)
\* bit b of the XOR of data[from], ..., data[to - 1]: the parity of the number
\* of those bytes that have bit b set
XorBit(data, from, to, b) ==
    Cardinality({p \in data : p[1] \in from..(to - 1)
                              /\ (p[2] \div (2 ^ b)) % 2 = 1}) % 2

\* parity ^= data[i] for i = from, ..., to - 1, starting from 0
XorRange(data, from, to) ==
    XorBit(data, from, to, 0) + (2 * XorBit(data, from, to, 1))
    + (4 * XorBit(data, from, to, 2)) + (8 * XorBit(data, from, to, 3))
    + (16 * XorBit(data, from, to, 4)) + (32 * XorBit(data, from, to, 5))
    + (64 * XorBit(data, from, to, 6)) + (128 * XorBit(data, from, to, 7))

\* a loop that starts one byte late
ParityFromSecondByte(data) ==
    XorRange(data, OFFSET_EPOCH_MS + 1, OFFSET_IMU_PARITY_BYTE)

calculate_parity(data) == XorRange(data, OFFSET_EPOCH_MS, OFFSET_IMU_PARITY_BYTE)

\* IMUData result = {0}; result.valid = false;
ZeroIMUData ==
    [valid |-> FALSE,
     position |-> ZeroBytes,
     timestamp_ms |-> ZeroBytes,
     pose_orientation |-> ZeroBytes]

\* the copies of read_latest_imu once enabled and parity have passed
CopyIMUData(data) ==
    [valid |-> TRUE,
     position |-> Bytes(data, OFFSET_POSE_POSITION, 12),
     timestamp_ms |-> Bytes(data, OFFSET_EPOCH_MS, 8),
     pose_orientation |-> Bytes(data, OFFSET_POSE_ORIENTATION, 64)]

SegmentEnabled(data) == ByteAt(data, OFFSET_ENABLED) # 0

ParityMatches(data) == calculate_parity(data) = ByteAt(data, OFFSET_IMU_PARITY_BYTE)

read_latest_imu(reader, data) ==
    IF ~reader.mapped THEN ZeroIMUData
    ELSE IF ~SegmentEnabled(data) THEN ZeroIMUData
    ELSE IF ~ParityMatches(data) THEN ZeroIMUData
    ELSE CopyIMUData(data)

\* DeviceConfig config = {0}; config.valid = false;
ZeroDeviceConfig ==
    [valid |-> FALSE,
     look_ahead_cfg |-> ZeroBytes,
     display_resolution |-> ZeroBytes,
     display_fov |-> ZeroBytes,
     lens_distance_ratio |-> ZeroBytes,
     sbs_enabled |-> FALSE,
     custom_banner_enabled |-> FALSE,
     smooth_follow_enabled |-> FALSE,
     smooth_follow_origin |-> ZeroBytes]

CopyDeviceConfig(data) ==
    [valid |-> TRUE,
     look_ahead_cfg |-> Bytes(data, OFFSET_LOOK_AHEAD_CFG, 16),
     display_resolution |-> Bytes(data, OFFSET_DISPLAY_RES, 8),
     display_fov |-> Bytes(data, OFFSET_DISPLAY_FOV, 4),
     lens_distance_ratio |-> Bytes(data, OFFSET_LENS_DISTANCE_RATIO, 4),
     sbs_enabled |-> ByteAt(data, OFFSET_SBS_ENABLED) # 0,
     custom_banner_enabled |-> ByteAt(data, OFFSET_CUSTOM_BANNER_ENABLED) # 0,
     smooth_follow_enabled |-> ByteAt(data, OFFSET_SMOOTH_FOLLOW_ENABLED) # 0,
     smooth_follow_origin |-> Bytes(data, OFFSET_SMOOTH_FOLLOW_ORIGIN_DATA, 64)]

read_device_config(reader, data) ==
    IF ~reader.mapped THEN ZeroDeviceConfig
    ELSE IF ~SegmentEnabled(data) THEN ZeroDeviceConfig
    ELSE IF ~ParityMatches(data) THEN ZeroDeviceConfig
    ELSE CopyDeviceConfig(data)

(***************************************************************************)
(* The external driver's images of the segment.  Image k carries pose k    *)
(* and configuration k in the first byte of each field; the remaining      *)
(* bytes are zero.  The trailer is the XOR over [113, 185).                *)
(***************************************************************************)
ImageBody(k) ==
    {<<OFFSET_VERSION, DATA_LAYOUT_VERSION>>,
     <<OFFSET_ENABLED, 1>>,
     <<OFFSET_LOOK_AHEAD_CFG, 10 + k>>,
     <<OFFSET_DISPLAY_RES, 20 + k>>,
     <<OFFSET_DISPLAY_RES + 4, 30 + k>>,
     <<OFFSET_DISPLAY_FOV, 40 + k>>,
     <<OFFSET_LENS_DISTANCE_RATIO, 50 + k>>,
     <<OFFSET_POSE_POSITION, 60 + k>>,
     <<OFFSET_EPOCH_MS, k>>,
     <<OFFSET_POSE_ORIENTATION, 16 * k>>}

\* the driver computes the trailer itself
DriverImage(k) ==
    StoreByte(ImageBody(k), OFFSET_IMU_PARITY_BYTE,
              XorRange(ImageBody(k), OFFSET_EPOCH_MS, OFFSET_IMU_PARITY_BYTE))

\* the segment before the driver has enabled it: version only
DisabledImage == {<<OFFSET_VERSION, DATA_LAYOUT_VERSION>>}

(***************************************************************************)
(* The compositor's buffers, as the kernel reports them (drmModeGetFB).    *)
(* Odd identities are 1920x1080, even ones 1280x720: a change of identity  *)
(* may or may not change the size.                                         *)
(***************************************************************************)
FbIds == 1..MaxFb
FbWidth(fb) == IF fb % 2 = 1 THEN 1920 ELSE 1280
FbHeight(fb) == IF fb % 2 = 1 THEN 1080 ELSE 720
FbPitch(fb) == 4 * FbWidth(fb)

DRM_FORMAT_XRGB8888 == 875713112
DRM_FORMAT_MOD_LINEAR == 0
\* what an uninitialised uint32_t on the capture thread's stack may hold
StackWords == {0, 7}

FdIds == 1..MaxExports
Min(a, b) == IF a < b THEN a ELSE b

(***************************************************************************)
(* State.                                                                  *)
(***************************************************************************)
VARIABLES
    m_pc,            \* main(): position in start-up / main loop / cleanup
    c_pc,            \* capture_thread_func: position
    r_pc,            \* render_thread_func / render_frame: position
    renderer,        \* struct Renderer: running, device_config, last_config_update_ms
    capture_thread,  \* struct CaptureThread
    render_thread,   \* struct RenderThread (without the mutex)
    dmabuf_mutex,    \* render_thread.dmabuf_mutex
    frame_buffer,    \* struct FrameBuffer
    imu_reader,      \* struct IMUReader
    fds,             \* per exported descriptor: the process's file descriptor
    egl_images,      \* per EGL image (named by the descriptor it was made from)
    gl_uniforms,     \* the uniform values held by the shader program
    c_local,         \* locals of one capture iteration
    r_local,         \* locals of one render iteration
    m_local,         \* the value cleanup_dmabuf_texture loaded from the slot
    joined,          \* history: how often pthread_join was called per thread
    last_published,  \* history: the descriptor of the latest store into the slot
    last_draw,       \* history: what the latest glDrawArrays used
    shm,             \* the bytes of /dev/shm/breezy_desktop_imu
    clock_ms,        \* CLOCK_REALTIME, in milliseconds
    gate,            \* one call of each read function on one segment image
    tear,            \* one stepwise read_latest_imu and the driver's write
    exit_status,     \* the value main() returned, NOT_EXITED before it returns
    x11_capture,     \* the X11 renderer's acquisition: its CaptureThread fields,
                     \* the kernel's buffer, the caller's output and last call
    look_ahead,      \* one call of breezy_calculate_look_ahead_ms
    slerp,           \* one call of breezy_slerp_quaternion
    smooth_follow,   \* two calls of breezy_smooth_follow_slerp_progress
    config_tear,     \* read_device_config in its steps
    probe,           \* one call of find_drm_device_for_framebuffer
    pacing,          \* the rates from argv to the pacing of one thread loop
    fov,             \* the field-of-view uniforms of one set_shader_uniforms
    ring,            \* write_frame and read_latest_frame, store by store
    segment,         \* a segment file of any size under the reader
    locks,           \* the two mutexes and the position of each thread at them
    slot             \* the stores and loads of one handoff, field by field

handoffVars ==
    <<m_pc, c_pc, r_pc, renderer, capture_thread, render_thread, dmabuf_mutex,
      frame_buffer, imu_reader, fds, egl_images, gl_uniforms, c_local, r_local,
      m_local, joined, last_published, last_draw>>

envVars == <<shm, clock_ms, gate, tear>>

mathVars == <<look_ahead, slerp>>

restVars == <<smooth_follow, config_tear, probe, pacing, fov, ring, segment, locks, slot>>

auxVars == <<exit_status, x11_capture, mathVars, restVars>>

vars == <<handoffVars, envVars, auxVars>>

InitCLocal == [dmabuf_fd |-> NO_FD, format |-> 0, stride |-> 0, modifier |-> 0]

InitRLocal ==
    [imu |-> ZeroIMUData, dmabuf_fd |-> NO_FD, fb_id |-> 0, format |-> 0,
     stride |-> 0, modifier |-> 0, width |-> 0, height |-> 0]

\* main() has not returned
NOT_EXITED == -1

NoDraw == [drawn |-> FALSE, uniforms_set |-> FALSE,
           pose_orientation |-> ZeroBytes, pose_position |-> ZeroBytes]

UnusedFd == [state |-> "unused", closes |-> 0, imports |-> 0,
             consumed |-> FALSE, overwritten |-> FALSE]

NoImage == [state |-> "none", destroys |-> 0]

\* the uniforms of a freshly linked program are zero
ZeroUniforms ==
    [pose_orientation |-> ZeroBytes, pose_position |-> ZeroBytes,
     look_ahead_cfg |-> ZeroBytes, display_resolution |-> ZeroBytes,
     sbs_enabled |-> FALSE, custom_banner_enabled |-> FALSE]

\* init_frame_buffer
init_frame_buffer(width, height) ==
    [width |-> width, height |-> height,
     write_index |-> 0, read_index |-> 0,
     timestamps |-> [i \in 0..(RING_BUFFER_SIZE - 1) |-> 0],
     frame_count |-> 0]

\* init_capture_thread + init_drm_capture, on the path that returns 0:
\* fb_info is NULL when drmModeGetFB failed (init still returns 0)
init_capture_thread(buffer_id, getfb_ok) ==
    [stop_requested |-> FALSE, thread_started |-> FALSE, running |-> FALSE,
     drm_fd |-> TRUE,
     fb_id |-> buffer_id,
     fb_info |-> IF getfb_ok THEN buffer_id ELSE 0,
     width |-> IF getfb_ok THEN FbWidth(buffer_id) ELSE 0,
     height |-> IF getfb_ok THEN FbHeight(buffer_id) ELSE 0]

\* init_render_thread, on the path that returns 0
init_render_thread ==
    [stop_requested |-> FALSE, thread_started |-> FALSE, running |-> FALSE,
     egl_display |-> EGL_NO_DISPLAY,
     gl_context |-> TRUE,
     shader_program |-> 1, vao |-> 1,
     frame_texture |-> 0,
     frame_egl_image |-> EGL_NO_IMAGE_KHR,
     current_dmabuf_fd |-> NO_FD,
     current_fb_id |-> 0, current_format |-> 0,
     current_stride |-> 0, current_modifier |-> 0]

\* main(), lines 809-862: the state in which the threads are about to be created.
\* stack_words is what the storage of the capture loop's locals may hold when the
\* thread starts.
HandoffInit(stack_words) ==
    /\ m_pc = "m_create_capture"
    /\ c_pc = "c_idle"
    /\ r_pc = "r_idle"
    /\ renderer = [running |-> TRUE, device_config |-> ZeroDeviceConfig,
                   last_config_update_ms |-> 0]
    /\ \E getfb_ok \in BOOLEAN :
          capture_thread =
             [init_capture_thread(1, getfb_ok) EXCEPT !.running = TRUE]
    /\ render_thread = [init_render_thread EXCEPT !.running = TRUE]
    /\ dmabuf_mutex = [holder |-> "none", destroyed |-> FALSE]
    /\ frame_buffer = init_frame_buffer(1920, 1080)
    /\ imu_reader = [mapped |-> TRUE, latest |-> ZeroIMUData]
    /\ fds = [d \in FdIds |-> UnusedFd]
    /\ egl_images = [d \in FdIds |-> NoImage]
    /\ gl_uniforms = ZeroUniforms
    /\ \E stack_format \in stack_words, stack_modifier \in stack_words :
          c_local = [InitCLocal EXCEPT !.format = stack_format,
                                       !.modifier = stack_modifier]
    /\ r_local = InitRLocal
    /\ m_local = NO_FD
    /\ joined = [capture |-> 0, render |-> 0]
    /\ last_published = NO_FD
    /\ last_draw = NoDraw

(***************************************************************************)
(* File descriptors: close(fd).                                            *)
(***************************************************************************)
\* a close that does not happen
LeaveFdOpen(table, d) == table

CloseFd(table, d) ==
    IF d \in FdIds
    THEN [table EXCEPT ![d].state = "closed", ![d].closes = Min(@ + 1, 2)]
    ELSE table   \* close(-1): EBADF, nothing happens

UnusedFds == {d \in FdIds : fds[d].state = "unused"}

\* the descriptor the next successful drmPrimeHandleToFD returns
NextFd == CHOOSE d \in UnusedFds : \A e \in UnusedFds : d <= e

(***************************************************************************)
(* drm_capture.c: export_drm_framebuffer_to_dmabuf.  buffer_id is the      *)
(* kernel's current crtc->buffer_id; crtc_ok, getfb_ok and prime_fd are    *)
(* the outcomes of drmModeGetCrtc, drmModeGetFB and the PRIME export;      *)
(* locals are the caller's (uninitialised) output variables.               *)
(***************************************************************************)
ExportRefresh(thread, buffer_id, getfb_ok) ==
    IF buffer_id # thread.fb_id
    THEN [thread EXCEPT !.fb_id = buffer_id,
                        !.fb_info = IF getfb_ok THEN buffer_id ELSE 0,
                        !.width = IF getfb_ok THEN FbWidth(buffer_id) ELSE @,
                        !.height = IF getfb_ok THEN FbHeight(buffer_id) ELSE @]
    ELSE thread

export_drm_framebuffer_to_dmabuf(thread, locals, buffer_id, crtc_ok, getfb_ok, prime_fd) ==
    IF ~thread.drm_fd \/ thread.fb_info = 0
    THEN [ret |-> -1, thread |-> thread, out |-> locals]
    ELSE IF ~crtc_ok
    THEN [ret |-> -1, thread |-> thread, out |-> locals]
    ELSE LET t2 == ExportRefresh(thread, buffer_id, getfb_ok) IN
         IF t2.fb_info = 0
         THEN [ret |-> -1, thread |-> t2, out |-> locals]
         ELSE IF prime_fd < 0
         THEN [ret |-> -1, thread |-> t2, out |-> locals]
         ELSE [ret |-> 0, thread |-> t2,
               out |-> [dmabuf_fd |-> prime_fd,
                        stride |-> FbPitch(t2.fb_info),
                        format |-> IF locals.format = 0
                                   THEN DRM_FORMAT_XRGB8888 ELSE locals.format,
                        modifier |-> IF locals.modifier = 0
                                     THEN DRM_FORMAT_MOD_LINEAR ELSE locals.modifier]]

(***************************************************************************)
(* capture_thread_func, lines 225-241: the critical section.               *)
(***************************************************************************)
\* lines 229-232: is the descriptor in the slot closed before the store?
CloseOldOnPublish(rt, ct) ==
    rt.current_dmabuf_fd >= 0 /\ ct.fb_id # rt.current_fb_id

\* a handoff that queues: a pending descriptor stays and the new one waits
PublishBehindPending(rt, ct, locals) ==
    IF rt.current_dmabuf_fd >= 0
    THEN rt
    ELSE [rt EXCEPT !.current_dmabuf_fd = locals.dmabuf_fd,
                    !.current_fb_id = ct.fb_id,
                    !.current_format = locals.format,
                    !.current_stride = locals.stride,
                    !.current_modifier = locals.modifier]

\* lines 235-239
PublishSlot(rt, ct, locals) ==
    [rt EXCEPT !.current_dmabuf_fd = locals.dmabuf_fd,
               !.current_fb_id = ct.fb_id,
               !.current_format = locals.format,
               !.current_stride = locals.stride,
               !.current_modifier = locals.modifier]

(***************************************************************************)
(* write_frame.                                                            *)
(***************************************************************************)
NextWrite(fb) == (fb.write_index + 1) % RING_BUFFER_SIZE

write_frame_accepts(fb, width, height) == width = fb.width /\ height = fb.height

\* clock_gettime(CLOCK_MONOTONIC, &fb->timestamps[next_write]) stores a reading
\* later than every reading stored before
write_frame(fb, width, height) ==
    IF ~write_frame_accepts(fb, width, height)
    THEN fb
    ELSE [fb EXCEPT !.timestamps[NextWrite(fb)] = fb.frame_count + 1,
                    !.write_index = NextWrite(fb),
                    !.frame_count = @ + 1]

(***************************************************************************)
(* The capture thread.                                                     *)
(***************************************************************************)
\* The kernel's answers to one export are drawn only for the calls the export
\* makes: drmModeGetCrtc (line 219), drmModeGetFB (line 231, on a changed
\* buffer_id) and the PRIME export (lines 249-253).  An answer to a call that
\* is not made takes a fixed value.
KernelCallsMade(thread, buffer_id, crtc_ok, getfb_ok, prime_fd) ==
    LET asks_crtc == thread.drm_fd /\ thread.fb_info # 0
        asks_fb == asks_crtc /\ crtc_ok /\ buffer_id # thread.fb_id
        asks_prime == asks_crtc /\ crtc_ok /\ (asks_fb => getfb_ok)
    IN /\ ~asks_crtc => (crtc_ok /\ buffer_id = thread.fb_id)
       /\ (asks_crtc /\ ~crtc_ok) => buffer_id = thread.fb_id
       /\ ~asks_fb => getfb_ok
       /\ ~asks_prime => prime_fd = -1

\* lines 217-222 and 246-272: the loop test, the export call and the branch on
\* its result; a failed export backs off and sleeps to the next frame.  format
\* and modifier (line 219) are not initialised: an iteration finds in them what
\* their storage holds, the thread's start content or what the export of an
\* earlier iteration left there.
CaptureExport ==
    /\ c_pc = "c_loop"
    /\ IF capture_thread.stop_requested
       THEN /\ c_pc' = "c_done"
            /\ UNCHANGED <<capture_thread, c_local, fds>>
       ELSE \E buffer_id \in FbIds, crtc_ok \in BOOLEAN, getfb_ok \in BOOLEAN,
               prime_fd \in {-1} \cup (IF UnusedFds = {} THEN {} ELSE {NextFd}) :
               LET res == export_drm_framebuffer_to_dmabuf(
                              capture_thread, c_local, buffer_id,
                              crtc_ok, getfb_ok, prime_fd)
               IN /\ KernelCallsMade(capture_thread, buffer_id, crtc_ok,
                                     getfb_ok, prime_fd)
                  /\ capture_thread' = res.thread
                  /\ IF res.ret = 0
                     THEN /\ c_local' = res.out
                          /\ fds' = [fds EXCEPT ![res.out.dmabuf_fd].state = "open"]
                          /\ c_pc' = "c_lock"
                     ELSE /\ c_local' = c_local
                          /\ fds' = fds
                          /\ c_pc' = "c_loop"
    /\ UNCHANGED <<envVars, auxVars, m_pc, r_pc, renderer, render_thread, dmabuf_mutex,
                   frame_buffer, imu_reader, egl_images, gl_uniforms, r_local, m_local,
                   joined, last_published, last_draw>>

\* lines 225-232: pthread_mutex_lock and the close of the old descriptor.  On a
\* destroyed mutex the call is undefined; its result is not checked and the
\* thread goes on.
CaptureLock ==
    /\ c_pc = "c_lock"
    /\ \/ /\ ~dmabuf_mutex.destroyed
          /\ dmabuf_mutex.holder = "none"
          /\ dmabuf_mutex' = [dmabuf_mutex EXCEPT !.holder = "capture"]
       \/ /\ dmabuf_mutex.destroyed
          /\ dmabuf_mutex' = dmabuf_mutex
    /\ fds' = IF CloseOldOnPublish(render_thread, capture_thread)
              THEN CloseFd(fds, render_thread.current_dmabuf_fd)
              ELSE fds
    /\ c_pc' = "c_store"
    /\ UNCHANGED <<envVars, auxVars, m_pc, r_pc, renderer, capture_thread, render_thread,
                   frame_buffer, imu_reader, egl_images, gl_uniforms, c_local, r_local,
                   m_local, joined, last_published, last_draw>>

\* lines 234-241: the stores into the slot and pthread_mutex_unlock
CaptureStore ==
    /\ c_pc = "c_store"
    /\ render_thread' = PublishSlot(render_thread, capture_thread, c_local)
    /\ fds' = IF render_thread.current_dmabuf_fd \in FdIds
                 /\ render_thread'.current_dmabuf_fd # render_thread.current_dmabuf_fd
              THEN [fds EXCEPT ![render_thread.current_dmabuf_fd].overwritten = TRUE]
              ELSE fds
    /\ last_published' = c_local.dmabuf_fd
    /\ dmabuf_mutex' = IF dmabuf_mutex.holder = "capture"
                       THEN [dmabuf_mutex EXCEPT !.holder = "none"]
                       ELSE dmabuf_mutex
    /\ c_pc' = "c_write_frame"
    /\ UNCHANGED <<envVars, auxVars, m_pc, r_pc, renderer, capture_thread, frame_buffer,
                   imu_reader, egl_images, gl_uniforms, c_local, r_local, m_local,
                   joined, last_draw>>

\* lines 243-272: write_frame and the pacing sleep; the iteration's locals end
CaptureWriteFrame ==
    /\ c_pc = "c_write_frame"
    /\ frame_buffer' = write_frame(frame_buffer, capture_thread.width,
                                   capture_thread.height)
    /\ c_local' = [c_local EXCEPT !.dmabuf_fd = NO_FD, !.stride = 0]
    /\ c_pc' = "c_loop"
    /\ UNCHANGED <<envVars, auxVars, m_pc, r_pc, renderer, capture_thread, render_thread,
                   dmabuf_mutex, imu_reader, fds, egl_images, gl_uniforms, r_local,
                   m_local, joined, last_published, last_draw>>

(***************************************************************************)
(* read_latest_frame: always reports a frame; returns the timestamp of the *)
(* entry at write_index.                                                   *)
(***************************************************************************)
read_latest_frame(fb) ==
    [available |-> TRUE, timestamp |-> fb.timestamps[fb.write_index]]

(***************************************************************************)
(* render_thread_func, lines 333-344: the periodic refresh of the cached   *)
(* configuration.  The subtraction is on uint64_t: a reading earlier than  *)
(* the stored one wraps to a huge difference.                              *)
(***************************************************************************)
ClockReadings == {1000, 2500}

ConfigRefreshDue(last_ms, current_ms) ==
    \/ last_ms = 0
    \/ IF current_ms >= last_ms
       THEN current_ms - last_ms > CONFIG_REFRESH_MS
       ELSE TRUE

\* line 342: what the cache holds after a refresh that returned config
RefreshedConfig(cached, config) == config

(***************************************************************************)
(* render_frame, lines 716-725: taking the descriptor out of the slot.     *)
(***************************************************************************)
TakeSlot(rt) ==
    [dmabuf_fd |-> rt.current_dmabuf_fd, fb_id |-> rt.current_fb_id,
     format |-> rt.current_format, stride |-> rt.current_stride,
     modifier |-> rt.current_modifier]

\* a take that leaves the descriptor in the slot
ConsumeLeavingSlot(rt) == rt

\* lines 722-725: mark as consumed
ConsumeSlot(rt) ==
    IF rt.current_dmabuf_fd >= 0
    THEN [rt EXCEPT !.current_dmabuf_fd = NO_FD]
    ELSE rt

(***************************************************************************)
(* opengl_context.c: import_dmabuf_as_texture.  outcome is what EGL/GL     *)
(* answer: "no_image" (no EGL display, missing extension or entry point,   *)
(* or eglCreateImageKHR failed), "bind_error" (glGetError after the bind)  *)
(* or "ok".  The new image is named by the descriptor it is made from.     *)
(* eglDestroyImageKHR destroys the image; nothing in the function closes   *)
(* a descriptor.                                                           *)
(***************************************************************************)
DestroyImage(images, i) ==
    [images EXCEPT ![i].state = "destroyed", ![i].destroys = Min(@ + 1, 2)]

ImportOutcomes == {"no_image", "bind_error", "ok"}

\* an import that leaves the image bound before in place
ImportKeepingOldImage(rt, images, fd, outcome) ==
    IF outcome = "no_image"
    THEN [texture |-> 0, rt |-> rt, images |-> images]
    ELSE LET created == [images EXCEPT ![fd].state = "live"]
             rt1 == [rt EXCEPT !.frame_texture = IF @ = 0 THEN 1 ELSE @]
         IN IF outcome = "bind_error"
            THEN [texture |-> 0, rt |-> rt1, images |-> DestroyImage(created, fd)]
            ELSE [texture |-> rt1.frame_texture,
                  rt |-> [rt1 EXCEPT !.frame_egl_image = fd],
                  images |-> created]

import_dmabuf_as_texture(rt, images, fd, outcome) ==
    IF outcome = "no_image"
    THEN [texture |-> 0, rt |-> rt, images |-> images]
    ELSE LET created == [images EXCEPT ![fd].state = "live"]
             \* lines 319-325
             rt1 == [rt EXCEPT !.frame_texture = IF @ = 0 THEN 1 ELSE @]
             \* lines 329-333
             released == IF rt.frame_egl_image # EGL_NO_IMAGE_KHR
                         THEN DestroyImage(created, rt.frame_egl_image)
                         ELSE created
         IN IF outcome = "bind_error"
            THEN \* lines 338-343
                 [texture |-> 0, rt |-> rt1, images |-> DestroyImage(released, fd)]
            ELSE \* lines 353-359
                 [texture |-> rt1.frame_texture,
                  rt |-> [rt1 EXCEPT !.frame_egl_image = fd],
                  images |-> released]

(***************************************************************************)
(* set_shader_uniforms: the early return and the uploads.                  *)
(***************************************************************************)
UniformsUploaded(rt, imu, config) ==
    rt.shader_program # 0 /\ imu.valid /\ config.valid

set_shader_uniforms(rt, uniforms, imu, config) ==
    IF ~UniformsUploaded(rt, imu, config)
    THEN uniforms
    ELSE [pose_orientation |-> imu.pose_orientation,
          pose_position |-> imu.position,
          look_ahead_cfg |-> config.look_ahead_cfg,
          display_resolution |-> config.display_resolution,
          sbs_enabled |-> config.sbs_enabled,
          custom_banner_enabled |-> config.custom_banner_enabled]

(***************************************************************************)
(* The render thread.                                                      *)
(***************************************************************************)
\* lines 318-331: the loop test, read_latest_frame and read_latest_imu; the
\* previous iteration's locals have ended
RenderRead ==
    /\ r_pc = "r_loop"
    /\ IF render_thread.stop_requested
       THEN /\ r_pc' = "r_done"
            /\ UNCHANGED <<r_local, imu_reader, last_draw>>
       ELSE IF ~read_latest_frame(frame_buffer).available
       THEN /\ r_pc' = "r_loop"
            /\ UNCHANGED <<r_local, imu_reader, last_draw>>
       ELSE LET result == read_latest_imu(imu_reader, shm) IN
                  /\ r_local' = [InitRLocal EXCEPT !.imu = result]
                  /\ imu_reader' = IF result.valid
                                   THEN [imu_reader EXCEPT !.latest = result]
                                   ELSE imu_reader
                  /\ last_draw' = NoDraw
                  /\ r_pc' = "r_config"
    /\ UNCHANGED <<envVars, auxVars, m_pc, c_pc, renderer, capture_thread, render_thread,
                   dmabuf_mutex, frame_buffer, fds, egl_images, gl_uniforms, c_local,
                   m_local, joined, last_published>>

\* lines 333-344
RenderConfig ==
    /\ r_pc = "r_config"
    /\ LET current_time_ms == clock_ms IN
          IF ConfigRefreshDue(renderer.last_config_update_ms, current_time_ms)
          THEN renderer' =
                  [renderer EXCEPT
                      !.device_config =
                          RefreshedConfig(@, read_device_config(imu_reader, shm)),
                      !.last_config_update_ms = current_time_ms]
          ELSE renderer' = renderer
    /\ r_pc' = "rf_take"
    /\ UNCHANGED <<envVars, auxVars, m_pc, c_pc, capture_thread, render_thread, dmabuf_mutex,
                   frame_buffer, imu_reader, fds, egl_images, gl_uniforms, c_local,
                   r_local, m_local, joined, last_published, last_draw>>

\* render_frame lines 704-725: the early return, the lock, the copy out of the
\* slot and the mark as consumed
RenderTake ==
    /\ r_pc = "rf_take"
    /\ IF render_thread.shader_program = 0 \/ render_thread.vao = 0
       THEN /\ r_pc' = "r_loop"
            /\ UNCHANGED <<r_local, fds, render_thread, dmabuf_mutex>>
       ELSE /\ ~dmabuf_mutex.destroyed
            /\ dmabuf_mutex.holder = "none"
            /\ dmabuf_mutex' = [dmabuf_mutex EXCEPT !.holder = "render"]
            /\ LET taken == TakeSlot(render_thread) IN
                  /\ r_local' = [r_local EXCEPT !.width = frame_buffer.width,
                                                !.height = frame_buffer.height,
                                                !.dmabuf_fd = taken.dmabuf_fd,
                                                !.fb_id = taken.fb_id,
                                                !.format = taken.format,
                                                !.stride = taken.stride,
                                                !.modifier = taken.modifier]
                  /\ fds' = IF taken.dmabuf_fd \in FdIds
                            THEN [fds EXCEPT ![taken.dmabuf_fd].consumed = TRUE]
                            ELSE fds
            /\ render_thread' = ConsumeSlot(render_thread)
            /\ r_pc' = "rf_unlock"
    /\ UNCHANGED <<envVars, auxVars, m_pc, c_pc, renderer, capture_thread, frame_buffer,
                   imu_reader, egl_images, gl_uniforms, c_local, m_local, joined,
                   last_published, last_draw>>

\* a render_frame that goes on to the import with the mutex still locked
RenderKeepsLock ==
    /\ r_pc = "rf_unlock"
    /\ r_pc' = "rf_import"
    /\ UNCHANGED <<envVars, auxVars, m_pc, c_pc, renderer, capture_thread, render_thread,
                   dmabuf_mutex, frame_buffer, imu_reader, fds, egl_images,
                   gl_uniforms, c_local, r_local, m_local, joined, last_published,
                   last_draw>>

\* line 727
RenderUnlock ==
    /\ r_pc = "rf_unlock"
    /\ dmabuf_mutex' = [dmabuf_mutex EXCEPT !.holder = "none"]
    /\ r_pc' = "rf_import"
    /\ UNCHANGED <<envVars, auxVars, m_pc, c_pc, renderer, capture_thread, render_thread,
                   frame_buffer, imu_reader, fds, egl_images, gl_uniforms, c_local,
                   r_local, m_local, joined, last_published, last_draw>>

\* lines 729-742; a failed import closes the descriptor, returns, and the loop
\* swaps and sleeps: the iteration's locals end
RenderImport ==
    /\ r_pc = "rf_import"
    /\ IF r_local.dmabuf_fd >= 0
       THEN \E outcome \in ImportOutcomes :
               LET res == import_dmabuf_as_texture(
                              render_thread, egl_images, r_local.dmabuf_fd, outcome)
                   passed == [fds EXCEPT ![r_local.dmabuf_fd].imports = Min(@ + 1, 2)]
               IN /\ render_thread' = res.rt
                  /\ egl_images' = res.images
                  /\ IF res.texture = 0
                     THEN /\ fds' = CloseFd(passed, r_local.dmabuf_fd)
                          /\ r_local' = InitRLocal
                          /\ r_pc' = "r_loop"
                     ELSE /\ fds' = passed
                          /\ r_local' = r_local
                          /\ r_pc' = "rf_draw"
       ELSE /\ r_pc' = "rf_draw"
            /\ UNCHANGED <<render_thread, egl_images, fds, r_local>>
    /\ UNCHANGED <<envVars, auxVars, m_pc, c_pc, renderer, capture_thread, dmabuf_mutex,
                   frame_buffer, imu_reader, gl_uniforms, c_local, m_local,
                   joined, last_published, last_draw>>

\* lines 744-783 and 349-373: the draw, swap_buffers and the pacing sleep; the
\* iteration's locals end
RenderDraw ==
    /\ r_pc = "rf_draw"
    /\ IF render_thread.frame_texture = 0
          \/ ~read_latest_frame(frame_buffer).available
       THEN UNCHANGED <<gl_uniforms, last_draw>>
       ELSE /\ gl_uniforms' = set_shader_uniforms(render_thread, gl_uniforms,
                                                  r_local.imu, renderer.device_config)
            /\ last_draw' =
                  [drawn |-> TRUE,
                   uniforms_set |-> UniformsUploaded(render_thread, r_local.imu,
                                                     renderer.device_config),
                   pose_orientation |-> gl_uniforms'.pose_orientation,
                   pose_position |-> gl_uniforms'.pose_position]
    /\ r_local' = InitRLocal
    /\ r_pc' = "r_loop"
    /\ UNCHANGED <<envVars, auxVars, m_pc, c_pc, renderer, capture_thread, render_thread,
                   dmabuf_mutex, frame_buffer, imu_reader, fds, egl_images, c_local,
                   m_local, joined, last_published>>

(***************************************************************************)
(* opengl_context.c: cleanup_dmabuf_texture, lines 365-377 (the image and  *)
(* the texture).  thread->egl_display is never assigned after              *)
(* init_render_thread, which sets it to EGL_NO_DISPLAY.                    *)
(***************************************************************************)
CleanupImageDestroys(rt) ==
    rt.frame_egl_image # EGL_NO_IMAGE_KHR /\ rt.egl_display # EGL_NO_DISPLAY

cleanup_dmabuf_texture_gl(rt) ==
    [rt EXCEPT !.frame_egl_image = IF CleanupImageDestroys(rt)
                                   THEN EGL_NO_IMAGE_KHR ELSE @,
               !.frame_texture = 0]

(***************************************************************************)
(* main(): thread creation, the main loop and the cleanup label.           *)
(***************************************************************************)
\* signal_handler, lines 788-793
signal_handler(rend) == [rend EXCEPT !.running = FALSE]

\* main line 809, Renderer renderer = {0}: the threads' structs before their
\* init functions ran
ZeroCaptureThread ==
    [stop_requested |-> FALSE, thread_started |-> FALSE, running |-> FALSE,
     drm_fd |-> FALSE, fb_id |-> 0, fb_info |-> 0, width |-> 0, height |-> 0]

ZeroRenderThread ==
    [init_render_thread EXCEPT !.gl_context = FALSE, !.shader_program = 0,
                               !.vao = 0]

\* the argument counts main() is started with: too few, and the four it needs
ArgCounts == {1, 5}

\* main lines 801-807: the argument count
MainArgs ==
    /\ m_pc = "m_args"
    /\ \E argc \in ArgCounts :
          IF argc < 5
          THEN m_pc' = "m_done" /\ exit_status' = 1
          ELSE m_pc' = "m_init_fb" /\ exit_status' = exit_status
    /\ UNCHANGED <<envVars, x11_capture, mathVars, restVars,
                   c_pc, r_pc, renderer, capture_thread, render_thread,
                   dmabuf_mutex, frame_buffer, imu_reader, fds, egl_images,
                   gl_uniforms, c_local, r_local, m_local, joined, last_published,
                   last_draw>>

\* main lines 825-830: init_frame_buffer
MainInitFrameBuffer ==
    /\ m_pc = "m_init_fb"
    /\ \/ /\ frame_buffer' = init_frame_buffer(1920, 1080)
          /\ m_pc' = "m_init_imu"
          /\ exit_status' = exit_status
       \/ /\ m_pc' = "m_done"
          /\ exit_status' = 1
          /\ UNCHANGED frame_buffer
    /\ UNCHANGED <<envVars, x11_capture, mathVars, restVars,
                   c_pc, r_pc, renderer, capture_thread, render_thread,
                   dmabuf_mutex, imu_reader, fds, egl_images, gl_uniforms, c_local,
                   r_local, m_local, joined, last_published, last_draw>>

\* main lines 832-836: init_imu_reader
MainInitImu ==
    /\ m_pc = "m_init_imu"
    /\ \/ /\ imu_reader' = [imu_reader EXCEPT !.mapped = TRUE]
          /\ m_pc' = "m_init_capture"
          /\ exit_status' = exit_status
       \/ /\ m_pc' = "m_done"
          /\ exit_status' = 1
          /\ UNCHANGED imu_reader
    /\ UNCHANGED <<envVars, x11_capture, mathVars, restVars,
                   c_pc, r_pc, renderer, capture_thread, render_thread,
                   dmabuf_mutex, frame_buffer, fds, egl_images, gl_uniforms, c_local,
                   r_local, m_local, joined, last_published, last_draw>>

\* main lines 838-843: init_capture_thread; on failure cleanup_imu_reader,
\* cleanup_frame_buffer, return 1
MainInitCapture ==
    /\ m_pc = "m_init_capture"
    /\ \/ /\ \E getfb_ok \in BOOLEAN :
                capture_thread' = init_capture_thread(1, getfb_ok)
          /\ m_pc' = "m_init_render"
          /\ exit_status' = exit_status
          /\ UNCHANGED imu_reader
       \/ /\ imu_reader' = [imu_reader EXCEPT !.mapped = FALSE]
          /\ m_pc' = "m_done"
          /\ exit_status' = 1
          /\ UNCHANGED capture_thread
    /\ UNCHANGED <<envVars, x11_capture, mathVars, restVars,
                   c_pc, r_pc, renderer, render_thread, dmabuf_mutex,
                   frame_buffer, fds, egl_images, gl_uniforms, c_local, r_local,
                   m_local, joined, last_published, last_draw>>

\* cleanup_capture_thread lines 298-304
JoinsCapture(ct) == ct.thread_started /\ ct.running

\* main lines 845-851: init_render_thread; on failure cleanup_capture_thread
\* (lines 297-306, no thread exists yet), cleanup_imu_reader,
\* cleanup_frame_buffer, return 1
MainInitRender ==
    /\ m_pc = "m_init_render"
    /\ \/ /\ render_thread' = init_render_thread
          /\ m_pc' = "m_start"
          /\ exit_status' = exit_status
          /\ UNCHANGED <<capture_thread, imu_reader, joined>>
       \/ /\ IF JoinsCapture(capture_thread)
             THEN /\ capture_thread' =
                        [capture_thread EXCEPT !.stop_requested = TRUE,
                                               !.thread_started = FALSE,
                                               !.running = FALSE,
                                               !.fb_info = 0, !.drm_fd = FALSE]
                  /\ joined' = [joined EXCEPT !.capture = Min(@ + 1, 2)]
             ELSE /\ capture_thread' =
                        [capture_thread EXCEPT !.stop_requested = TRUE,
                                               !.fb_info = 0, !.drm_fd = FALSE]
                  /\ joined' = joined
          /\ imu_reader' = [imu_reader EXCEPT !.mapped = FALSE]
          /\ m_pc' = "m_done"
          /\ exit_status' = 1
          /\ UNCHANGED render_thread
    /\ UNCHANGED <<envVars, x11_capture, mathVars, restVars,
                   c_pc, r_pc, renderer, dmabuf_mutex, frame_buffer, fds,
                   egl_images, gl_uniforms, c_local, r_local, m_local,
                   last_published, last_draw>>

\* main lines 854-862: the signal handlers are installed and the running flags
\* set
MainStart ==
    /\ m_pc = "m_start"
    /\ renderer' = [renderer EXCEPT !.running = TRUE]
    /\ capture_thread' = [capture_thread EXCEPT !.running = TRUE,
                                                !.stop_requested = FALSE]
    /\ render_thread' = [render_thread EXCEPT !.running = TRUE,
                                              !.stop_requested = FALSE]
    /\ m_pc' = "m_create_capture"
    /\ UNCHANGED <<envVars, auxVars, c_pc, r_pc, dmabuf_mutex, frame_buffer,
                   imu_reader, fds, egl_images, gl_uniforms, c_local, r_local,
                   m_local, joined, last_published, last_draw>>

\* lines 864-869
MainCreateCapture ==
    /\ m_pc = "m_create_capture"
    /\ \/ /\ c_pc' = "c_loop"
          /\ capture_thread' = [capture_thread EXCEPT !.thread_started = TRUE]
          /\ m_pc' = "m_create_render"
       \/ /\ m_pc' = "m_stop_flags"
          /\ UNCHANGED <<c_pc, capture_thread>>
    /\ UNCHANGED <<envVars, auxVars, r_pc, renderer, render_thread, dmabuf_mutex, frame_buffer,
                   imu_reader, fds, egl_images, gl_uniforms, c_local, r_local, m_local,
                   joined, last_published, last_draw>>

\* lines 871-878
MainCreateRender ==
    /\ m_pc = "m_create_render"
    /\ \/ /\ r_pc' = "r_loop"
          /\ render_thread' = [render_thread EXCEPT !.thread_started = TRUE]
          /\ m_pc' = "m_main_loop"
          /\ UNCHANGED capture_thread
       \/ /\ capture_thread' = [capture_thread EXCEPT !.stop_requested = TRUE]
          /\ m_pc' = "m_stop_flags"
          /\ UNCHANGED <<r_pc, render_thread>>
    /\ UNCHANGED <<envVars, auxVars, c_pc, renderer, dmabuf_mutex, frame_buffer, imu_reader, fds,
                   egl_images, gl_uniforms, c_local, r_local, m_local, joined,
                   last_published, last_draw>>

\* lines 883-885 with the handler, lines 788-793: SIGINT or SIGTERM clears
\* running and the loop, the only reader of the flag, ends
MainLoop ==
    /\ m_pc = "m_main_loop"
    /\ renderer.running
    /\ renderer' = signal_handler(renderer)
    /\ m_pc' = "m_stop_flags"
    /\ UNCHANGED <<envVars, auxVars, c_pc, r_pc, capture_thread, render_thread, dmabuf_mutex,
                   frame_buffer, imu_reader, fds, egl_images, gl_uniforms, c_local,
                   r_local, m_local, joined, last_published, last_draw>>

\* a shutdown that leaves the stop flags as they are
MainLeavesFlags ==
    /\ m_pc = "m_stop_flags"
    /\ m_pc' = "m_cr_join"
    /\ UNCHANGED <<envVars, auxVars, c_pc, r_pc, renderer, capture_thread, render_thread,
                   dmabuf_mutex, frame_buffer, imu_reader, fds, egl_images, gl_uniforms,
                   c_local, r_local, m_local, joined, last_published, last_draw>>

\* lines 891-892
MainStopFlags ==
    /\ m_pc = "m_stop_flags"
    /\ capture_thread' = [capture_thread EXCEPT !.stop_requested = TRUE]
    /\ render_thread' = [render_thread EXCEPT !.stop_requested = TRUE]
    /\ m_pc' = "m_cr_join"
    /\ UNCHANGED <<envVars, auxVars, c_pc, r_pc, renderer, dmabuf_mutex, frame_buffer,
                   imu_reader, fds, egl_images, gl_uniforms, c_local, r_local, m_local,
                   joined, last_published, last_draw>>

\* a join decided by the running flag alone
JoinsWhenRunning(rt) == rt.running

\* cleanup_render_thread lines 465-471.  pthread_join returns when the thread
\* has ended; called for a thread that was never created it has nothing to
\* wait for.
JoinsRender(rt) == rt.thread_started /\ rt.running

MainJoinRender ==
    /\ m_pc = "m_cr_join"
    /\ IF JoinsRender(render_thread)
       THEN /\ r_pc \in {"r_done", "r_idle"}
            /\ render_thread' = [render_thread EXCEPT !.stop_requested = TRUE,
                                                      !.thread_started = FALSE,
                                                      !.running = FALSE]
            /\ joined' = [joined EXCEPT !.render = Min(@ + 1, 2)]
       ELSE /\ render_thread' = [render_thread EXCEPT !.stop_requested = TRUE]
            /\ joined' = joined
    /\ m_pc' = "m_cr_mutex"
    /\ UNCHANGED <<envVars, auxVars, c_pc, r_pc, renderer, capture_thread, dmabuf_mutex,
                   frame_buffer, imu_reader, fds, egl_images, gl_uniforms, c_local,
                   r_local, m_local, last_published, last_draw>>

\* cleanup_render_thread lines 473-474
MainDestroyMutex ==
    /\ m_pc = "m_cr_mutex"
    /\ dmabuf_mutex' = [dmabuf_mutex EXCEPT !.destroyed = TRUE]
    /\ m_pc' = "m_cr_gl"
    /\ UNCHANGED <<envVars, auxVars, c_pc, r_pc, renderer, capture_thread, render_thread,
                   frame_buffer, imu_reader, fds, egl_images, gl_uniforms, c_local,
                   r_local, m_local, joined, last_published, last_draw>>

\* cleanup_render_thread lines 476-489: the program and the shaders, then
\* cleanup_dmabuf_texture lines 363-377
MainCleanupGl ==
    /\ m_pc = "m_cr_gl"
    /\ egl_images' = IF CleanupImageDestroys(render_thread)
                     THEN DestroyImage(egl_images, render_thread.frame_egl_image)
                     ELSE egl_images
    /\ render_thread' =
          cleanup_dmabuf_texture_gl([render_thread EXCEPT !.shader_program = 0])
    /\ m_pc' = "m_cdt_check"
    /\ UNCHANGED <<envVars, auxVars, c_pc, r_pc, renderer, capture_thread, dmabuf_mutex,
                   frame_buffer, imu_reader, fds, gl_uniforms, c_local, r_local, m_local,
                   joined, last_published, last_draw>>

\* cleanup_dmabuf_texture line 379: the load and test of the slot (no lock)
MainCleanupSlotCheck ==
    /\ m_pc = "m_cdt_check"
    /\ m_local' = render_thread.current_dmabuf_fd
    /\ m_pc' = IF render_thread.current_dmabuf_fd >= 0 THEN "m_cdt_close" ELSE "m_cr_ctx"
    /\ UNCHANGED <<envVars, auxVars, c_pc, r_pc, renderer, capture_thread, render_thread,
                   dmabuf_mutex, frame_buffer, imu_reader, fds, egl_images, gl_uniforms,
                   c_local, r_local, joined, last_published, last_draw>>

\* line 380: close(thread->current_dmabuf_fd).  The field is read without
\* synchronisation: the argument is the value loaded for the test or a new load.
MainCleanupSlotClose ==
    /\ m_pc = "m_cdt_close"
    /\ \E fd \in {m_local, render_thread.current_dmabuf_fd} :
          fds' = CloseFd(fds, fd)
    /\ m_pc' = "m_cdt_store"
    /\ UNCHANGED <<envVars, auxVars, c_pc, r_pc, renderer, capture_thread, render_thread,
                   dmabuf_mutex, frame_buffer, imu_reader, egl_images, gl_uniforms,
                   c_local, r_local, m_local, joined, last_published, last_draw>>

\* line 381
MainCleanupSlotStore ==
    /\ m_pc = "m_cdt_store"
    /\ render_thread' = [render_thread EXCEPT !.current_dmabuf_fd = NO_FD]
    /\ m_local' = NO_FD
    /\ m_pc' = "m_cr_ctx"
    /\ UNCHANGED <<envVars, auxVars, c_pc, r_pc, renderer, capture_thread, dmabuf_mutex,
                   frame_buffer, imu_reader, fds, egl_images, gl_uniforms, c_local,
                   r_local, joined, last_published, last_draw>>

\* cleanup_render_thread lines 490-499
MainCleanupContext ==
    /\ m_pc = "m_cr_ctx"
    /\ render_thread' = [render_thread EXCEPT !.vao = 0, !.gl_context = FALSE]
    /\ m_pc' = "m_cc_join"
    /\ UNCHANGED <<envVars, auxVars, c_pc, r_pc, renderer, capture_thread, dmabuf_mutex,
                   frame_buffer, imu_reader, fds, egl_images, gl_uniforms, c_local,
                   r_local, m_local, joined, last_published, last_draw>>

\* cleanup_capture_thread lines 298-304, on the way out of main
MainJoinCapture ==
    /\ m_pc = "m_cc_join"
    /\ IF JoinsCapture(capture_thread)
       THEN /\ c_pc \in {"c_done", "c_idle"}
            /\ capture_thread' = [capture_thread EXCEPT !.stop_requested = TRUE,
                                                        !.thread_started = FALSE,
                                                        !.running = FALSE]
            /\ joined' = [joined EXCEPT !.capture = Min(@ + 1, 2)]
       ELSE /\ capture_thread' = [capture_thread EXCEPT !.stop_requested = TRUE]
            /\ joined' = joined
    /\ m_pc' = "m_cc_drm"
    /\ UNCHANGED <<envVars, auxVars, c_pc, r_pc, renderer, render_thread, dmabuf_mutex,
                   frame_buffer, imu_reader, fds, egl_images, gl_uniforms, c_local,
                   r_local, m_local, last_published, last_draw>>

\* cleanup_capture_thread line 305: cleanup_drm_capture
MainCleanupDrm ==
    /\ m_pc = "m_cc_drm"
    /\ capture_thread' = [capture_thread EXCEPT !.fb_info = 0, !.drm_fd = FALSE]
    /\ m_pc' = "m_imu"
    /\ UNCHANGED <<envVars, auxVars, c_pc, r_pc, renderer, render_thread, dmabuf_mutex,
                   frame_buffer, imu_reader, fds, egl_images, gl_uniforms, c_local,
                   r_local, m_local, joined, last_published, last_draw>>

\* main lines 897-901: cleanup_imu_reader, cleanup_frame_buffer, return 0
MainCleanupImu ==
    /\ m_pc = "m_imu"
    /\ imu_reader' = [imu_reader EXCEPT !.mapped = FALSE]
    /\ m_pc' = "m_done"
    /\ exit_status' = 0
    /\ UNCHANGED <<envVars, x11_capture, mathVars, restVars,
                   c_pc, r_pc, renderer, capture_thread, render_thread,
                   dmabuf_mutex, frame_buffer, fds, egl_images, gl_uniforms, c_local,
                   r_local, m_local, joined, last_published, last_draw>>

(***************************************************************************)
(* The external driver, the producer of the shared-memory segment.         *)
(***************************************************************************)
\* the driver publishes a complete image
DriverWrite ==
    /\ r_pc \notin {"r_idle", "r_done"}
    /\ \E k \in 1..MaxImage : shm' = DriverImage(k)
    /\ shm' # shm
    /\ UNCHANGED <<handoffVars, auxVars, clock_ms, gate, tear>>

\* the driver clears the enabled flag (device unplugged, driver stopped)
DriverDisable ==
    /\ r_pc \notin {"r_idle", "r_done"}
    /\ ByteAt(shm, OFFSET_ENABLED) # 0
    /\ shm' = StoreByte(shm, OFFSET_ENABLED, 0)
    /\ UNCHANGED <<handoffVars, auxVars, clock_ms, gate, tear>>

(***************************************************************************)
(* The parity gate on one image: the segment holds an image, one byte of   *)
(* the checksummed range is or is not changed, then read_latest_imu and    *)
(* read_device_config run on it.                                           *)
(***************************************************************************)
GateIdle ==
    [pc |-> "g_image", image |-> ZeroBytes, corrupted |-> -1,
     imu |-> ZeroIMUData, config |-> ZeroDeviceConfig]

\* the images the gate is tried on
GateImages ==
    {DriverImage(k) : k \in 1..MaxImage}
    \cup {DisabledImage, StoreByte(DriverImage(1), OFFSET_ENABLED, 0)}

\* one byte of [OFFSET_EPOCH_MS, OFFSET_IMU_PARITY_BYTE) takes another value
GateCorrupt ==
    /\ gate.pc = "g_image"
    /\ \E i \in OFFSET_EPOCH_MS..(OFFSET_IMU_PARITY_BYTE - 1) :
       \E v \in Byte \ {ByteAt(shm, i)} :
          /\ shm' = StoreByte(shm, i, v)
          /\ gate' = [gate EXCEPT !.pc = "g_read", !.corrupted = i]
    /\ UNCHANGED <<handoffVars, auxVars, clock_ms, tear>>

\* the image stays as the driver wrote it
GateKeep ==
    /\ gate.pc = "g_image"
    /\ gate' = [gate EXCEPT !.pc = "g_read"]
    /\ UNCHANGED <<handoffVars, auxVars, shm, clock_ms, tear>>

GateReadImu ==
    /\ gate.pc = "g_read"
    /\ gate' = [gate EXCEPT !.pc = "g_read_config",
                            !.imu = read_latest_imu(imu_reader, shm)]
    /\ UNCHANGED <<handoffVars, auxVars, shm, clock_ms, tear>>

GateReadConfig ==
    /\ gate.pc = "g_read_config"
    /\ gate' = [gate EXCEPT !.pc = "g_done",
                            !.config = read_device_config(imu_reader, shm)]
    /\ UNCHANGED <<handoffVars, auxVars, shm, clock_ms, tear>>

(***************************************************************************)
(* read_latest_imu, lines 110-150, in its steps, while the driver stores   *)
(* its next image byte by byte.  The order of the driver's stores is not   *)
(* fixed by this program: any order is modelled.                           *)
(***************************************************************************)
\* number of complete images the driver writes, the first before the reader runs
MaxWrites == 2

TearIdle ==
    [pc |-> "t_idle", parity |-> 0, result |-> ZeroIMUData,
     writing |-> 1, left |-> {}]

\* the offsets at which image n differs from what the segment holds
Differing(data, n) ==
    {i \in 0..(ShmSize - 1) : ByteAt(data, i) # ByteAt(DriverImage(n), i)}

\* the driver starts its next write
DriverBeginWrite ==
    /\ tear.left = {}
    /\ tear.writing < MaxWrites
    /\ tear' = [tear EXCEPT !.writing = @ + 1,
                            !.left = Differing(shm, tear.writing + 1)]
    /\ UNCHANGED <<handoffVars, auxVars, shm, clock_ms, gate>>

\* the driver stores one byte of the image it is writing
DriverStoreByte ==
    /\ \E i \in tear.left :
          /\ shm' = StoreByte(shm, i, ByteAt(DriverImage(tear.writing), i))
          /\ tear' = [tear EXCEPT !.left = @ \ {i}]
    /\ UNCHANGED <<handoffVars, auxVars, clock_ms, gate>>

\* lines 103-108
TearCall ==
    /\ tear.pc = "t_idle"
    /\ tear' = [tear EXCEPT !.result = ZeroIMUData, !.parity = 0,
                            !.pc = IF imu_reader.mapped
                                   THEN "t_enabled" ELSE "t_return"]
    /\ UNCHANGED <<handoffVars, auxVars, shm, clock_ms, gate>>

\* lines 115-119
TearEnabled ==
    /\ tear.pc = "t_enabled"
    /\ tear' = [tear EXCEPT !.pc = IF SegmentEnabled(shm)
                                   THEN "t_parity_epoch" ELSE "t_return"]
    /\ UNCHANGED <<handoffVars, auxVars, shm, clock_ms, gate>>

\* line 122, calculate_parity over the epoch bytes
TearParityEpoch ==
    /\ tear.pc = "t_parity_epoch"
    /\ tear' = [tear EXCEPT
                   !.parity = XorRange(shm, OFFSET_EPOCH_MS, OFFSET_POSE_ORIENTATION),
                   !.pc = "t_parity_orientation"]
    /\ UNCHANGED <<handoffVars, auxVars, shm, clock_ms, gate>>

\* line 122, calculate_parity over the orientation bytes
TearParityOrientation ==
    /\ tear.pc = "t_parity_orientation"
    /\ tear' = [tear EXCEPT
                   !.parity = BitXor(@, XorRange(shm, OFFSET_POSE_ORIENTATION,
                                                 OFFSET_IMU_PARITY_BYTE)),
                   !.pc = "t_compare"]
    /\ UNCHANGED <<handoffVars, auxVars, shm, clock_ms, gate>>

\* lines 123-128
TearCompare ==
    /\ tear.pc = "t_compare"
    /\ tear' = [tear EXCEPT
                   !.pc = IF tear.parity # ByteAt(shm, OFFSET_IMU_PARITY_BYTE)
                          THEN "t_return" ELSE "t_position"]
    /\ UNCHANGED <<handoffVars, auxVars, shm, clock_ms, gate>>

\* line 131
TearCopyPosition ==
    /\ tear.pc = "t_position"
    /\ tear' = [tear EXCEPT !.result.position = Bytes(shm, OFFSET_POSE_POSITION, 12),
                            !.pc = "t_epoch"]
    /\ UNCHANGED <<handoffVars, auxVars, shm, clock_ms, gate>>

\* lines 134-137
TearCopyEpoch ==
    /\ tear.pc = "t_epoch"
    /\ tear' = [tear EXCEPT !.result.timestamp_ms = Bytes(shm, OFFSET_EPOCH_MS, 8),
                            !.pc = "t_orientation"]
    /\ UNCHANGED <<handoffVars, auxVars, shm, clock_ms, gate>>

\* lines 142-144
TearCopyOrientation ==
    /\ tear.pc = "t_orientation"
    /\ tear' = [tear EXCEPT
                   !.result.pose_orientation = Bytes(shm, OFFSET_POSE_ORIENTATION, 64),
                   !.result.valid = TRUE,
                   !.pc = "t_return"]
    /\ UNCHANGED <<handoffVars, auxVars, shm, clock_ms, gate>>

\* lines 147-150 (and the early returns): the result reaches the caller
TearReturn ==
    /\ tear.pc = "t_return"
    /\ tear' = [tear EXCEPT !.pc = "t_idle"]
    /\ imu_reader' = IF tear.result.valid
                     THEN [imu_reader EXCEPT !.latest = tear.result]
                     ELSE imu_reader
    /\ UNCHANGED <<m_pc, c_pc, r_pc, renderer, capture_thread, render_thread,
                   dmabuf_mutex, frame_buffer, fds, egl_images, gl_uniforms,
                   c_local, r_local, m_local, joined, last_published, last_draw,
                   shm, clock_ms, gate, auxVars>>

(***************************************************************************)
(* read_device_config, lines 154-209, in its steps, while the driver       *)
(* stores its next image byte by byte (DriverBeginWrite, DriverStoreByte). *)
(***************************************************************************)
ConfigTearIdle == [pc |-> "k_idle", parity |-> 0, result |-> ZeroDeviceConfig]

\* lines 155-163
ConfigTearCall ==
    /\ config_tear.pc = "k_idle"
    /\ config_tear' = [config_tear EXCEPT
                          !.result = ZeroDeviceConfig, !.parity = 0,
                          !.pc = IF imu_reader.mapped THEN "k_enabled" ELSE "k_return"]
    /\ UNCHANGED <<handoffVars, envVars, exit_status, x11_capture, mathVars,
                   smooth_follow, probe, pacing, fov, ring, segment, locks, slot>>

\* lines 165-170
ConfigTearEnabled ==
    /\ config_tear.pc = "k_enabled"
    /\ config_tear' = [config_tear EXCEPT
                          !.pc = IF SegmentEnabled(shm) THEN "k_parity" ELSE "k_return"]
    /\ UNCHANGED <<handoffVars, envVars, exit_status, x11_capture, mathVars,
                   smooth_follow, probe, pacing, fov, ring, segment, locks, slot>>

\* line 173
ConfigTearParity ==
    /\ config_tear.pc = "k_parity"
    /\ config_tear' = [config_tear EXCEPT !.parity = calculate_parity(shm),
                                          !.pc = "k_compare"]
    /\ UNCHANGED <<handoffVars, envVars, exit_status, x11_capture, mathVars,
                   smooth_follow, probe, pacing, fov, ring, segment, locks, slot>>

\* lines 174-178
ConfigTearCompare ==
    /\ config_tear.pc = "k_compare"
    /\ config_tear' = [config_tear EXCEPT
                          !.pc = IF config_tear.parity # ByteAt(shm, OFFSET_IMU_PARITY_BYTE)
                                 THEN "k_return" ELSE "k_look_ahead"]
    /\ UNCHANGED <<handoffVars, envVars, exit_status, x11_capture, mathVars,
                   smooth_follow, probe, pacing, fov, ring, segment, locks, slot>>

\* line 181
ConfigTearCopyLookAhead ==
    /\ config_tear.pc = "k_look_ahead"
    /\ config_tear' = [config_tear EXCEPT
                          !.result.look_ahead_cfg = Bytes(shm, OFFSET_LOOK_AHEAD_CFG, 16),
                          !.pc = "k_resolution"]
    /\ UNCHANGED <<handoffVars, envVars, exit_status, x11_capture, mathVars,
                   smooth_follow, probe, pacing, fov, ring, segment, locks, slot>>

\* line 184
ConfigTearCopyResolution ==
    /\ config_tear.pc = "k_resolution"
    /\ config_tear' = [config_tear EXCEPT
                          !.result.display_resolution = Bytes(shm, OFFSET_DISPLAY_RES, 8),
                          !.pc = "k_lens"]
    /\ UNCHANGED <<handoffVars, envVars, exit_status, x11_capture, mathVars,
                   smooth_follow, probe, pacing, fov, ring, segment, locks, slot>>

\* lines 187-190
ConfigTearCopyLens ==
    /\ config_tear.pc = "k_lens"
    /\ config_tear' = [config_tear EXCEPT
                          !.result.display_fov = Bytes(shm, OFFSET_DISPLAY_FOV, 4),
                          !.result.lens_distance_ratio =
                              Bytes(shm, OFFSET_LENS_DISTANCE_RATIO, 4),
                          !.pc = "k_rest"]
    /\ UNCHANGED <<handoffVars, envVars, exit_status, x11_capture, mathVars,
                   smooth_follow, probe, pacing, fov, ring, segment, locks, slot>>

\* lines 193-204
ConfigTearCopyRest ==
    /\ config_tear.pc = "k_rest"
    /\ config_tear' = [config_tear EXCEPT
                          !.result.sbs_enabled = ByteAt(shm, OFFSET_SBS_ENABLED) # 0,
                          !.result.custom_banner_enabled =
                              ByteAt(shm, OFFSET_CUSTOM_BANNER_ENABLED) # 0,
                          !.result.smooth_follow_enabled =
                              ByteAt(shm, OFFSET_SMOOTH_FOLLOW_ENABLED) # 0,
                          !.result.smooth_follow_origin =
                              Bytes(shm, OFFSET_SMOOTH_FOLLOW_ORIGIN_DATA, 64),
                          !.result.valid = TRUE,
                          !.pc = "k_return"]
    /\ UNCHANGED <<handoffVars, envVars, exit_status, x11_capture, mathVars,
                   smooth_follow, probe, pacing, fov, ring, segment, locks, slot>>

\* lines 206-207 (and the early returns): the result reaches the caller
ConfigTearReturn ==
    /\ config_tear.pc = "k_return"
    /\ config_tear' = [config_tear EXCEPT !.pc = "k_idle"]
    /\ UNCHANGED <<handoffVars, envVars, exit_status, x11_capture, mathVars,
                   smooth_follow, probe, pacing, fov, ring, segment, locks, slot>>

(***************************************************************************)
(* The frame rates, from the command line to the pacing of a thread loop:  *)
(* main lines 809-815, init_capture_thread line 280 and init_render_thread *)
(* line 411, capture_thread_func lines 213-215 and 251-272,                *)
(* render_thread_func lines 314-316 and 352-373.  A struct timespec is a   *)
(* record of tv_sec and tv_nsec; frame_time, a double, is carried as its   *)
(* whole seconds and its fraction in nanoseconds, or as infinite.          *)
(***************************************************************************)
NSEC_PER_SEC == 1000000000

\* completed iterations of the loop that are followed
MaxFrames == 3

\* the frames per second given on the command line
ArgRates == {1, 60, 90}

\* what clock_gettime(CLOCK_MONOTONIC) may give when the loop starts
StartTimes == {[tv_sec |-> 5, tv_nsec |-> 0], [tv_sec |-> 5, tv_nsec |-> 990000000]}

PacingIdle ==
    [pc |-> "p_args", loop |-> "capture", argv |-> [capture_fps |-> 0, render_fps |-> 0],
     virtual_framerate |-> 0, render_refresh_rate |-> 0,
     framerate |-> 0, refresh_rate |-> 0,
     frame_time |-> [finite |-> TRUE, whole |-> 0, nanos |-> 0],
     start |-> [tv_sec |-> 0, tv_nsec |-> 0],
     next_frame_time |-> [tv_sec |-> 0, tv_nsec |-> 0],
     iterations |-> 0]

\* memset(thread, 0, sizeof(*thread)): the rate field of a thread after its
\* init function
MemsetRate(configured) == 0

\* 1.0 / rate: infinite for a rate of 0
FrameTimeOf(rate) ==
    IF rate = 0
    THEN [finite |-> FALSE, whole |-> 0, nanos |-> 0]
    ELSE [finite |-> TRUE, whole |-> 1 \div rate,
          nanos |-> (NSEC_PER_SEC \div rate) - (NSEC_PER_SEC * (1 \div rate))]

\* A double that is not finite has no value as time_t, int or long: the
\* conversion is undefined and the two fields end up with whatever the build
\* produces (x86-64 converts to LONG_MIN, AArch64 saturates to LONG_MAX, a
\* folded constant may be anything).  Representatives: below the range of a
\* nanosecond field, unchanged, and above it.
UndefinedAdvances(target) ==
    {[tv_sec |-> target.tv_sec + s, tv_nsec |-> n] :
        s \in {-1, 0}, n \in {-NSEC_PER_SEC, target.tv_nsec, NSEC_PER_SEC + 1}}

\* lines 266-271 and 367-372, for a finite frame_time
AdvanceTarget(target, frame_time) ==
    LET sec == target.tv_sec + frame_time.whole
        nsec == target.tv_nsec + frame_time.nanos
    IN IF nsec >= NSEC_PER_SEC
       THEN [tv_sec |-> sec + 1, tv_nsec |-> nsec - NSEC_PER_SEC]
       ELSE [tv_sec |-> sec, tv_nsec |-> nsec]

\* main lines 812-815: atoi of the arguments
PacingMainArgs ==
    /\ pacing.pc = "p_args"
    /\ pacing' = [pacing EXCEPT !.virtual_framerate = pacing.argv.capture_fps,
                                !.render_refresh_rate = pacing.argv.render_fps,
                                !.pc = "p_init"]
    /\ UNCHANGED <<handoffVars, envVars, exit_status, x11_capture, mathVars,
                   smooth_follow, config_tear, probe, fov, ring, segment, locks, slot>>

\* init_capture_thread lines 280-286 and init_render_thread lines 411-432:
\* neither reads the rates of the renderer
PacingInitThreads ==
    /\ pacing.pc = "p_init"
    /\ pacing' = [pacing EXCEPT !.framerate = MemsetRate(pacing.virtual_framerate),
                                !.refresh_rate = MemsetRate(pacing.render_refresh_rate),
                                !.pc = "p_start"]
    /\ UNCHANGED <<handoffVars, envVars, exit_status, x11_capture, mathVars,
                   smooth_follow, config_tear, probe, fov, ring, segment, locks, slot>>

\* lines 213-215 and 314-316: the frame time and the first target
PacingThreadStart ==
    /\ pacing.pc = "p_start"
    /\ \E now \in StartTimes :
          pacing' = [pacing EXCEPT
                        !.frame_time = FrameTimeOf(IF pacing.loop = "capture"
                                                   THEN pacing.framerate
                                                   ELSE pacing.refresh_rate),
                        !.start = now, !.next_frame_time = now,
                        !.pc = "p_loop"]
    /\ UNCHANGED <<handoffVars, envVars, exit_status, x11_capture, mathVars,
                   smooth_follow, config_tear, probe, fov, ring, segment, locks, slot>>

\* lines 251-272 and 352-373: the end of one iteration
PacingIterate ==
    /\ pacing.pc = "p_loop"
    /\ pacing.iterations < MaxFrames
    /\ \E target \in (IF pacing.frame_time.finite
                       THEN {AdvanceTarget(pacing.next_frame_time, pacing.frame_time)}
                       ELSE UndefinedAdvances(pacing.next_frame_time)) :
          pacing' = [pacing EXCEPT !.next_frame_time = target,
                                   !.iterations = @ + 1]
    /\ UNCHANGED <<handoffVars, envVars, exit_status, x11_capture, mathVars,
                   smooth_follow, config_tear, probe, fov, ring, segment, locks, slot>>

(***************************************************************************)
(* The wall clock.  CLOCK_REALTIME advances and may be set back.           *)
(***************************************************************************)
ClockChange ==
    /\ r_pc \notin {"r_idle", "r_done"}
    /\ clock_ms' \in ClockReadings \ {clock_ms}
    /\ UNCHANGED <<handoffVars, auxVars, shm, gate, tear>>

(***************************************************************************)
(* src/x11/renderer/drm_capture.c: the acquisition of the X11 renderer.    *)
(* The kernel holds one buffer for the virtual output, kernel_fb; open is  *)
(* the set of DMA-BUF descriptors the process holds; out is the output     *)
(* variables of the frame loop's export call and call the record of that   *)
(* call while nothing else has touched the acquisition since.              *)
(***************************************************************************)
X11ZeroThread ==
    [drm_fd |-> FALSE, fb_id |-> 0, fb_info |-> 0, cached_dmabuf_fd |-> NO_FD,
     cached_format |-> 0, cached_stride |-> 0, cached_modifier |-> 0]

X11NoOutput == [dmabuf_fd |-> NO_FD, format |-> 0, stride |-> 0, modifier |-> 0]

X11NoCall ==
    [made |-> FALSE, ret |-> 0, thread |-> X11ZeroThread, out |-> X11NoOutput,
     getfb_ok |-> FALSE, prime_fd |-> NO_FD]

X11Idle ==
    [thread |-> X11ZeroThread, kernel_fb |-> 1, open |-> {},
     out |-> X11NoOutput, call |-> X11NoCall]

\* an export that reports a vanished buffer as a generic failure
ExportGoneAsFailure(thread, out, getfb_ok, prime_fd) ==
    IF ~thread.drm_fd \/ thread.fb_info = 0 \/ ~getfb_ok \/ prime_fd < 0
    THEN [ret |-> -1, out |-> out]
    ELSE [ret |-> 0,
          out |-> [dmabuf_fd |-> prime_fd, format |-> DRM_FORMAT_XRGB8888,
                   stride |-> FbPitch(thread.fb_info), modifier |-> 0]]

\* export_drm_framebuffer_to_dmabuf, lines 278-333: getfb_ok is the outcome of
\* drmModeGetFB on thread->fb_id, prime_fd of the PRIME export.  The function
\* writes nothing into *thread.
x11_export_drm_framebuffer_to_dmabuf(thread, out, getfb_ok, prime_fd) ==
    IF ~thread.drm_fd \/ thread.fb_info = 0
    THEN [ret |-> -1, out |-> out]
    ELSE IF ~getfb_ok
    THEN [ret |-> -2, out |-> out]
    ELSE IF prime_fd < 0
    THEN [ret |-> -1, out |-> out]
    ELSE [ret |-> 0,
          out |-> [dmabuf_fd |-> prime_fd, format |-> DRM_FORMAT_XRGB8888,
                   stride |-> FbPitch(thread.fb_info), modifier |-> 0]]

\* what the kernel may answer: drmModeGetFB finds only the buffer that exists,
\* the PRIME export returns a descriptor the process does not hold, or fails
X11GetFbAnswers(x, fb_id) == IF x.kernel_fb = fb_id THEN BOOLEAN ELSE {FALSE}
X11PrimeAnswers(x) == {NO_FD} \cup (FdIds \ x.open)

(***************************************************************************)
(* find_drm_device_for_framebuffer and try_device_prefix, lines 142-206.   *)
(* The directory /dev/dri is the sequence of its entries in the order      *)
(* readdir gives them; an entry has the prefix of its name, can be opened  *)
(* by this process or not, and, once open, resolves fb_id or not.  A       *)
(* directory that cannot be opened has no entries.  A path is the index of *)
(* its entry, 0 for none.                                                  *)
(***************************************************************************)
MaxNodes == 2

NodePrefixes == {"renderD", "card", "by-path"}

DeviceNodes ==
    {n \in [prefix : NodePrefixes, openable : BOOLEAN, resolves : BOOLEAN] :
        n.resolves => n.openable}

RECURSIVE Directories(_)
Directories(len) ==
    IF len = 0 THEN {<<>>}
    ELSE Directories(len - 1)
         \cup {Append(d, n) : d \in {e \in Directories(len - 1) : Len(e) = len - 1},
                              n \in DeviceNodes}

NoHandles == [opened |-> {}, closed |-> {}]

\* open(device_path_tmp, O_RDWR | O_CLOEXEC), line 160
OpenNode(handles, i) == [handles EXCEPT !.opened = @ \cup {i}]

\* close(drm_fd), lines 173 and 177
CloseNode(handles, i) == [handles EXCEPT !.closed = @ \cup {i}]

\* the loop of try_device_prefix, lines 152-178, from entry i on
RECURSIVE ProbeFrom(_, _, _, _)
ProbeFrom(nodes, prefix, i, handles) ==
    IF i > Len(nodes)
    THEN [ret |-> -1, path |-> 0, handles |-> handles]
    ELSE IF nodes[i].prefix # prefix \/ ~nodes[i].openable
    THEN ProbeFrom(nodes, prefix, i + 1, handles)
    ELSE IF nodes[i].resolves
    THEN [ret |-> 0, path |-> i, handles |-> CloseNode(OpenNode(handles, i), i)]
    ELSE ProbeFrom(nodes, prefix, i + 1, CloseNode(OpenNode(handles, i), i))

\* lines 142-183
try_device_prefix(nodes, prefix, handles) == ProbeFrom(nodes, prefix, 1, handles)

\* a search that asks the card nodes first
FindCardFirst(nodes) ==
    LET card == try_device_prefix(nodes, "card", NoHandles) IN
    IF card.ret = 0 THEN card
    ELSE try_device_prefix(nodes, "renderD", card.handles)

\* lines 190-206
find_drm_device_for_framebuffer(nodes) ==
    LET render == try_device_prefix(nodes, "renderD", NoHandles) IN
    IF render.ret = 0 THEN render
    ELSE try_device_prefix(nodes, "card", render.handles)

ProbeIdle ==
    [nodes |-> <<>>, called |-> FALSE, ret |-> 0, path |-> 0, handles |-> NoHandles]

FindDrmDevice ==
    /\ ~probe.called
    /\ LET res == find_drm_device_for_framebuffer(probe.nodes) IN
          probe' = [probe EXCEPT !.called = TRUE, !.ret = res.ret,
                                 !.path = res.path, !.handles = res.handles]
    /\ UNCHANGED <<handoffVars, envVars, exit_status, x11_capture, mathVars,
                   smooth_follow, config_tear, pacing, fov, ring, segment, locks, slot>>

\* init_drm_capture, lines 209-274.  randr_fb is the identity the XRandR
\* property gives (0: none), device_ok whether a device node with that buffer
\* was found and opened.
x11_init_drm_capture(thread, randr_fb, device_ok, getfb_ok, prime_fd) ==
    IF randr_fb = 0
    THEN [ret |-> -1, thread |-> thread]
    ELSE LET t1 == [thread EXCEPT !.fb_id = randr_fb] IN
         IF ~device_ok
         THEN [ret |-> -1, thread |-> t1]
         ELSE IF ~getfb_ok
         THEN [ret |-> -1, thread |-> [t1 EXCEPT !.fb_info = 0, !.drm_fd = FALSE]]
         ELSE LET t2 == [t1 EXCEPT !.drm_fd = TRUE, !.fb_info = randr_fb,
                                   !.cached_dmabuf_fd = NO_FD]
                  cached == [dmabuf_fd |-> t2.cached_dmabuf_fd,
                             format |-> t2.cached_format,
                             stride |-> t2.cached_stride,
                             modifier |-> t2.cached_modifier]
                  res == x11_export_drm_framebuffer_to_dmabuf(
                             t2, cached, getfb_ok, prime_fd)
              IN IF res.ret < 0
                 THEN [ret |-> -1,
                       thread |-> [t2 EXCEPT !.fb_info = 0, !.drm_fd = FALSE]]
                 ELSE [ret |-> 0,
                       thread |-> [t2 EXCEPT
                                      !.cached_dmabuf_fd = res.out.dmabuf_fd,
                                      !.cached_format = res.out.format,
                                      !.cached_stride = res.out.stride,
                                      !.cached_modifier = res.out.modifier]]

\* cleanup_drm_capture, lines 336-362
x11_cleanup_drm_capture(thread) == X11ZeroThread

X11InitDrmCapture ==
    /\ ~x11_capture.thread.drm_fd
    /\ \E randr_fb \in {0, x11_capture.kernel_fb}, device_ok \in BOOLEAN :
       \E getfb_ok \in X11GetFbAnswers(x11_capture, randr_fb),
          prime_fd \in X11PrimeAnswers(x11_capture) :
          LET res == x11_init_drm_capture(x11_capture.thread, randr_fb,
                                          device_ok, getfb_ok, prime_fd)
          IN /\ (randr_fb = 0 \/ ~device_ok) => (getfb_ok /\ prime_fd = NO_FD)
             /\ ~getfb_ok => prime_fd = NO_FD
             /\ x11_capture' =
                   [x11_capture EXCEPT
                      !.thread = res.thread,
                      !.open = IF res.ret = 0
                               THEN @ \cup {res.thread.cached_dmabuf_fd} ELSE @,
                      !.call = X11NoCall]
    /\ UNCHANGED <<handoffVars, envVars, exit_status, mathVars, restVars>>

\* one export call of the frame loop
X11Export ==
    /\ \E getfb_ok \in X11GetFbAnswers(x11_capture, x11_capture.thread.fb_id),
          prime_fd \in X11PrimeAnswers(x11_capture) :
          LET res == x11_export_drm_framebuffer_to_dmabuf(
                         x11_capture.thread, x11_capture.out, getfb_ok, prime_fd)
          IN /\ ~getfb_ok => prime_fd = NO_FD
             /\ x11_capture' =
                   [x11_capture EXCEPT
                      !.out = res.out,
                      !.open = IF res.ret = 0
                               THEN @ \cup {res.out.dmabuf_fd} ELSE @,
                      !.call = [made |-> TRUE, ret |-> res.ret,
                                thread |-> x11_capture.thread,
                                out |-> x11_capture.out,
                                getfb_ok |-> getfb_ok, prime_fd |-> prime_fd]]
    /\ UNCHANGED <<handoffVars, envVars, exit_status, mathVars, restVars>>

\* the compositor replaces the backing buffer of the virtual output
X11Replace ==
    /\ \E fb \in FbIds \ {x11_capture.kernel_fb} :
          x11_capture' = [x11_capture EXCEPT !.kernel_fb = fb, !.call = X11NoCall]
    /\ UNCHANGED <<handoffVars, envVars, exit_status, mathVars, restVars>>

X11CleanupDrmCapture ==
    /\ x11_capture.thread # X11ZeroThread
    /\ x11_capture' =
          [x11_capture EXCEPT
             !.thread = x11_cleanup_drm_capture(@),
             !.open = @ \ {x11_capture.thread.cached_dmabuf_fd},
             !.call = X11NoCall]
    /\ UNCHANGED <<handoffVars, envVars, exit_status, mathVars, restVars>>

(***************************************************************************)
(* src/shared/math/breezy_math.c                                           *)
(***************************************************************************)
LookAheadIdle ==
    [imu_timestamp_ms |-> 0, current_time_ms |-> 0, look_ahead_constant |-> 0,
     look_ahead_override |-> 0, result |-> 0, called |-> FALSE]

SlerpIdle ==
    [q1 |-> <<0, 0, 0, 0>>, q2 |-> <<0, 0, 0, 0>>, t |-> 0,
     result |-> [direction |-> <<0, 0, 0, 0>>, unit |-> FALSE],
     called |-> FALSE]

\* float has a significand of 24 bits: the integers up to 2^24 are exact
FloatPrecision == 16777216

\* the spacing of the floats around the integer n >= 0
RECURSIVE FloatSpacing(_, _)
FloatSpacing(n, u) ==
    IF n \div u < FloatPrecision THEN u ELSE FloatSpacing(n, 2 * u)

\* (float)n for an integer n: the nearest float, ties to the even significand
RoundToFloat(n) ==
    LET a == IF n < 0 THEN 0 - n ELSE n
        u == FloatSpacing(a, 1)
        q == a \div u
        r == a % u
        up == IF 2 * r > u THEN 1
              ELSE IF 2 * r < u THEN 0
              ELSE q % 2
        rounded == (q + up) * u
    IN IF n < 0 THEN 0 - rounded ELSE rounded

\* the float sum of two integer-valued floats
FloatAdd(a, b) == RoundToFloat(a + b)

\* a look-ahead that does not look at the override
LookAheadOfConstant(imu_timestamp_ms, current_time_ms, look_ahead_constant, look_ahead_override) ==
    LET data_age == IF current_time_ms > imu_timestamp_ms
                    THEN current_time_ms - imu_timestamp_ms ELSE 0
    IN FloatAdd(look_ahead_constant, RoundToFloat(data_age))

\* breezy_calculate_look_ahead_ms, lines 203-213
breezy_calculate_look_ahead_ms(imu_timestamp_ms, current_time_ms, look_ahead_constant, look_ahead_override) ==
    LET data_age == IF current_time_ms > imu_timestamp_ms
                    THEN current_time_ms - imu_timestamp_ms ELSE 0
        look_ahead_used == IF look_ahead_override >= 0
                           THEN look_ahead_override ELSE look_ahead_constant
    IN FloatAdd(look_ahead_used, RoundToFloat(data_age))

\* the arguments the function is called with: timestamps in milliseconds, one
\* of them more than 2^24 ms after the others, and integer-valued floats
LookAheadTimes == {0, 1000, 1500, 16778217}
LookAheadConstants == {0, 10}
LookAheadOverrides == {-1, 0, 5}

LookAheadCall ==
    /\ ~look_ahead.called
    /\ look_ahead' =
          [look_ahead EXCEPT
             !.result = breezy_calculate_look_ahead_ms(
                            look_ahead.imu_timestamp_ms,
                            look_ahead.current_time_ms,
                            look_ahead.look_ahead_constant,
                            look_ahead.look_ahead_override),
             !.called = TRUE]
    /\ UNCHANGED <<handoffVars, envVars, exit_status, x11_capture, slerp, restVars>>

(***************************************************************************)
(* breezy_smooth_follow_slerp_progress, lines 193-201, on elapsed times    *)
(* that are multiples of the timeline.  SMOOTH_FOLLOW_SLERP_FACTOR is the  *)
(* 1000th root of 1.0 - 0.999, so that pow(factor, 1000 k) is 10^(-3k).    *)
(* A progress is carried in units of 2^-24, the spacing of the floats from *)
(* 1/2 to 1.                                                               *)
(***************************************************************************)
SMOOTH_FOLLOW_SLERP_TIMELINE_MS == 1000

SmoothFollowIdle ==
    [a |-> 0, b |-> 0, progress_a |-> 0, progress_b |-> 0, called |-> FALSE]

RECURSIVE TenTo(_)
TenTo(d) == IF d = 0 THEN 1 ELSE 10 * TenTo(d - 1)

\* the quotient n / d rounded to the nearest integer
RoundDiv(n, d) == (2 * n + d) \div (2 * d)

\* pow(SMOOTH_FOLLOW_SLERP_FACTOR, elapsed_ms) as a float, in units of 2^-24:
\* from 10^-9 on it is less than a quarter of a unit
DecayOf(elapsed_ms) ==
    LET digits == 3 * (elapsed_ms \div SMOOTH_FOLLOW_SLERP_TIMELINE_MS)
    IN IF digits >= 9 THEN 0 ELSE RoundDiv(FloatPrecision, TenTo(digits))

\* a progress that is the decay itself
ProgressOfDecay(elapsed_ms) == DecayOf(elapsed_ms)

\* line 200: 1.0f - (float)pow(...), rounded to float
breezy_smooth_follow_slerp_progress(elapsed_ms) ==
    FloatPrecision - DecayOf(elapsed_ms)

\* the elapsed times the function is called with
MaxTimelines == 9
SmoothFollowTimes == {SMOOTH_FOLLOW_SLERP_TIMELINE_MS * k : k \in 0..MaxTimelines}

SmoothFollowCall ==
    /\ ~smooth_follow.called
    /\ smooth_follow' =
          [smooth_follow EXCEPT
             !.progress_a = breezy_smooth_follow_slerp_progress(smooth_follow.a),
             !.progress_b = breezy_smooth_follow_slerp_progress(smooth_follow.b),
             !.called = TRUE]
    /\ UNCHANGED <<handoffVars, envVars, exit_status, x11_capture, mathVars,
                   config_tear, probe, pacing, fov, ring, segment, locks, slot>>

(***************************************************************************)
(* breezy_slerp_quaternion, lines 115-174, in exact arithmetic on the unit *)
(* quaternions whose components are multiples of 1/2 and on t in multiples *)
(* of 1/2.  Components are carried in halves (QuatOne is 1.0), t in halves *)
(* (SlerpOne is 1.0), a dot product in quarters, an angle in degrees.  On  *)
(* these arguments every sine the function takes is 0 or the square root   *)
(* of a multiple of 1/4, and the two weights are equal or one of them is   *)
(* 0, so the weighted sum is carried up to the positive factor that the    *)
(* final normalisation removes.                                            *)
(***************************************************************************)
QuatOne == 2
SlerpOne == 2

QuatDot(a, b) == a[1] * b[1] + a[2] * b[2] + a[3] * b[3] + a[4] * b[4]

\* the unit quaternions: the 8 on the axes and the 16 with all components 1/2
UnitQuats ==
    {q \in [1..4 -> (0 - QuatOne)..QuatOne] : QuatDot(q, q) = QuatOne * QuatOne}

QuatScale(k, q) == [i \in 1..4 |-> k * q[i]]
QuatAdd(a, b) == [i \in 1..4 |-> a[i] + b[i]]

\* the values of t: below 0, 0, 1/2, 1 and above 1
SlerpTs == {-1, 0, 1, 2, 3}

\* lines 117-118
ClampT(t) == IF t < 0 THEN 0 ELSE IF t > SlerpOne THEN SlerpOne ELSE t

\* an interpolation that goes the way q2 points, the long way round included
KeepPath(q2, dot) == [q |-> q2, dot |-> dot]

\* lines 124-137: the shorter path
ShortestPath(q2, dot) ==
    IF dot < 0
    THEN [q |-> QuatScale(-1, q2), dot |-> 0 - dot]
    ELSE [q |-> q2, dot |-> dot]

\* lines 140-141
ClampDot(dot) ==
    IF dot > QuatOne * QuatOne THEN QuatOne * QuatOne
    ELSE IF dot < 0 - QuatOne * QuatOne THEN 0 - QuatOne * QuatOne
    ELSE dot

\* line 144, acosf: the angle, in degrees, whose cosine is dot/4
ACosDegrees(dot) ==
    CASE dot = 4 -> 0
      [] dot = 2 -> 60
      [] dot = 0 -> 90
      [] dot = -2 -> 120
      [] dot = -4 -> 180

\* sinf: four times the square of the sine of an angle of 0 to 180 degrees,
\* where the sine is not negative
SinSquared(degrees) ==
    CASE degrees \in {0, 180} -> 0
      [] degrees \in {30, 150} -> 1
      [] degrees \in {45, 135} -> 2
      [] degrees \in {60, 120} -> 3
      [] degrees = 90 -> 4

\* line 147: sin_theta < 1e-6f.  sinf of the float nearest to pi is negative.
SinThetaSmall(theta) == SinSquared(theta) = 0

\* lines 156-159: the weights sin((1-t) theta) / sin theta and
\* sin(t theta) / sin theta, up to a common positive factor
SlerpWeights(t, theta) ==
    LET s1 == SinSquared(((SlerpOne - t) * theta) \div SlerpOne)
        s2 == SinSquared((t * theta) \div SlerpOne)
    IN IF s2 = 0 THEN <<1, 0>>
       ELSE IF s1 = 0 THEN <<0, 1>>
       ELSE <<1, 1>>

\* lines 166-173: the division by the length when the length is positive.
\* The result is a vector in the direction of the returned quaternion and
\* whether the returned quaternion has length 1.
NormalizeResult(v) == [direction |-> v, unit |-> QuatDot(v, v) > 0]

breezy_slerp_quaternion(q1, q2, t) ==
    LET tc == ClampT(t)
        path == ShortestPath(q2, QuatDot(q1, q2))
        actual_q2 == path.q
        dot == ClampDot(path.dot)
        theta == ACosDegrees(dot)
    IN IF SinThetaSmall(theta)
       THEN \* lines 149-153, times SlerpOne
            NormalizeResult(QuatAdd(QuatScale(SlerpOne - tc, q1),
                                    QuatScale(tc, actual_q2)))
       ELSE \* lines 156-164
            LET w == SlerpWeights(tc, theta)
            IN NormalizeResult(QuatAdd(QuatScale(w[1], q1),
                                       QuatScale(w[2], actual_q2)))

SlerpCall ==
    /\ ~slerp.called
    /\ slerp' = [slerp EXCEPT
                    !.result = breezy_slerp_quaternion(slerp.q1, slerp.q2, slerp.t),
                    !.called = TRUE]
    /\ UNCHANGED <<handoffVars, envVars, exit_status, x11_capture, look_ahead, restVars>>

(***************************************************************************)
(* The field of view: set_shader_uniforms lines 547-553 and                *)
(* breezy_diagonal_to_cross_fovs (shared/math/breezy_math.c lines 12-26).  *)
(* Angles are in thousandths of a degree, tangents in millionths.  tan and *)
(* atan are the two directions of one table of the tangent at whole        *)
(* degrees, linear between its entries.  The resolutions are those whose   *)
(* diagonal is a whole number of pixels, so that sqrt(aspect^2 + 1) is the *)
(* ratio of the diagonal to the height without rounding.                   *)
(***************************************************************************)
MILLI == 1000

\* tan(d degrees) * 10^6 for d = 0..85, at position d + 1
TanTable ==
    <<
       0, 17455, 34921, 52408, 69927, 87489,
       105104, 122785, 140541, 158384, 176327, 194380,
       212557, 230868, 249328, 267949, 286745, 305731,
       324920, 344328, 363970, 383864, 404026, 424475,
       445229, 466308, 487733, 509525, 531709, 554309,
       577350, 600861, 624869, 649408, 674509, 700208,
       726543, 753554, 781286, 809784, 839100, 869287,
       900404, 932515, 965689, 1000000, 1035530, 1072369,
       1110613, 1150368, 1191754, 1234897, 1279942, 1327045,
       1376382, 1428148, 1482561, 1539865, 1600335, 1664279,
       1732051, 1804048, 1880726, 1962611, 2050304, 2144507,
       2246037, 2355852, 2475087, 2605089, 2747477, 2904211,
       3077684, 3270853, 3487414, 3732051, 4010781, 4331476,
       4704630, 5144554, 5671282, 6313752, 7115370, 8144346,
       9514364, 11430052
    >>

TanAtDegree(d) == TanTable[d + 1]

\* tan of an angle below 85 degrees
Tan(angle) ==
    LET d == angle \div MILLI
        f == angle % MILLI
    IN TanAtDegree(d) + RoundDiv((TanAtDegree(d + 1) - TanAtDegree(d)) * f, MILLI)

\* atan of a tangent below that of 85 degrees
ATan(x) ==
    LET d == CHOOSE e \in 0..84 : TanAtDegree(e) <= x /\ x < TanAtDegree(e + 1)
    IN d * MILLI + RoundDiv((x - TanAtDegree(d)) * MILLI, TanAtDegree(d + 1) - TanAtDegree(d))

RECURSIVE Gcd(_, _)
Gcd(a, b) == IF b = 0 THEN a ELSE Gcd(b, a % b)

\* x * n / d, rounded
Scale(x, n, d) == RoundDiv(x * (n \div Gcd(n, d)), d \div Gcd(n, d))

\* the whole number whose square is n
Sqrt(n) == CHOOSE r \in 0..4096 : r * r = n

\* sqrt(aspect^2 + 1) * height, for the aspect ratio width / height
Diagonal(width, height) == Sqrt(width * width + height * height)

\* breezy_diagonal_to_cross_fovs, the aspect ratio given as width / height
breezy_diagonal_to_cross_fovs(diagonal_fov, width, height) ==
    LET flat_diagonal_fov == 2 * Tan(diagonal_fov \div 2)
        flat_vertical_fov == Scale(flat_diagonal_fov, height, Diagonal(width, height))
        flat_horizontal_fov == Scale(flat_vertical_fov, width, height)
    IN [diagonal |-> diagonal_fov,
        horizontal |-> 2 * ATan(flat_horizontal_fov \div 2),
        vertical |-> 2 * ATan(flat_vertical_fov \div 2)]

\* lines 548-552: fov_half_widths, horizontal first
FovHalfWidths(display_fov, width, height) ==
    LET half_fov_z_rads == Scale(display_fov, height, Diagonal(width, height)) \div 2
        half_fov_y_rads == Scale(half_fov_z_rads, width, height)
    IN <<Tan(half_fov_y_rads), Tan(half_fov_z_rads)>>

\* the diagonal fields of view, in whole degrees
DisplayFovs == {10 * k : k \in 1..16}

\* width and height of the display
DisplayResolutions == {<<1600, 1200>>, <<800, 600>>, <<1200, 1600>>, <<1024, 768>>}

FovIdle ==
    [pc |-> "f_idle", display_fov |-> 0, display_resolution |-> <<0, 0>>,
     fov_half_widths |-> <<0, 0>>]

\* set_shader_uniforms lines 547-553 and 653-655
FovSetUniforms ==
    /\ fov.pc = "f_idle"
    /\ fov' = [fov EXCEPT
                  !.fov_half_widths =
                      FovHalfWidths(fov.display_fov * MILLI,
                                    fov.display_resolution[1], fov.display_resolution[2]),
                  !.pc = "f_uploaded"]
    /\ UNCHANGED <<handoffVars, envVars, exit_status, x11_capture, mathVars,
                   smooth_follow, config_tear, probe, pacing, ring, segment, locks, slot>>

(***************************************************************************)
(* The ring of frame timestamps, store by store: write_frame lines 162-183 *)
(* in the capture thread, read_latest_frame lines 185-204 in the render    *)
(* thread.  Neither takes a lock.  A struct timespec is two words:         *)
(* clock_gettime stores them one after the other and the copy of line 194  *)
(* loads them one after the other, in an order the build chooses.          *)
(***************************************************************************)
\* calls of write_frame that are followed
MaxFrameWrites == 4

\* calls of read_latest_frame that are followed
MaxReads == 2

\* how far CLOCK_MONOTONIC has advanced from one write_frame to the next
ClockSteps == {400000000, 700000000}

ZeroTime == [tv_sec |-> 0, tv_nsec |-> 0]

\* the time ns later than t, for ns below one second
TimeAfter(t, ns) ==
    IF t.tv_nsec + ns >= NSEC_PER_SEC
    THEN [tv_sec |-> t.tv_sec + 1, tv_nsec |-> t.tv_nsec + ns - NSEC_PER_SEC]
    ELSE [tv_sec |-> t.tv_sec, tv_nsec |-> t.tv_nsec + ns]

TimeLeq(a, b) == a.tv_sec < b.tv_sec \/ (a.tv_sec = b.tv_sec /\ a.tv_nsec <= b.tv_nsec)

\* the frame buffer after calloc (line 149), the clock at its first reading
RingIdle ==
    [timestamps |-> [i \in 0..(RING_BUFFER_SIZE - 1) |-> ZeroTime],
     write_index |-> 0, frame_count |-> 0,
     w_pc |-> "w_idle", next_write |-> 0, now |-> [tv_sec |-> 1, tv_nsec |-> 0],
     stored |-> {ZeroTime},
     r_pc |-> "r_idle", read_idx |-> 0, first |-> "tv_sec", timestamp |-> ZeroTime,
     returned |-> <<>>]

\* lines 163-169: the size test and next_write; the clock is read at line 175
RingWriteBegin ==
    /\ ring.w_pc = "w_idle"
    /\ ring.frame_count < MaxFrameWrites
    /\ \E matches \in BOOLEAN, ns \in ClockSteps :
          ring' = IF matches
                  THEN [ring EXCEPT !.next_write = (ring.write_index + 1) % RING_BUFFER_SIZE,
                                    !.now = TimeAfter(ring.now, ns),
                                    !.w_pc = "w_sec"]
                  ELSE ring
    /\ UNCHANGED <<handoffVars, envVars, exit_status, x11_capture, mathVars,
                   smooth_follow, config_tear, probe, pacing, fov, segment, locks, slot>>

\* line 175: clock_gettime stores tv_sec
RingWriteSec ==
    /\ ring.w_pc = "w_sec"
    /\ ring' = [ring EXCEPT !.timestamps[ring.next_write].tv_sec = ring.now.tv_sec,
                            !.w_pc = "w_nsec"]
    /\ UNCHANGED <<handoffVars, envVars, exit_status, x11_capture, mathVars,
                   smooth_follow, config_tear, probe, pacing, fov, segment, locks, slot>>

\* line 175: clock_gettime stores tv_nsec
RingWriteNsec ==
    /\ ring.w_pc = "w_nsec"
    /\ ring' = [ring EXCEPT !.timestamps[ring.next_write].tv_nsec = ring.now.tv_nsec,
                            !.stored = @ \cup {ring.now},
                            !.w_pc = "w_index"]
    /\ UNCHANGED <<handoffVars, envVars, exit_status, x11_capture, mathVars,
                   smooth_follow, config_tear, probe, pacing, fov, segment, locks, slot>>

\* lines 178-182
RingWriteIndex ==
    /\ ring.w_pc = "w_index"
    /\ ring' = [ring EXCEPT !.write_index = ring.next_write,
                            !.frame_count = @ + 1,
                            !.w_pc = "w_idle"]
    /\ UNCHANGED <<handoffVars, envVars, exit_status, x11_capture, mathVars,
                   smooth_follow, config_tear, probe, pacing, fov, segment, locks, slot>>

\* lines 187-188
RingReadIndex ==
    /\ ring.r_pc = "r_idle"
    /\ Len(ring.returned) < MaxReads
    /\ \E first \in {"tv_sec", "tv_nsec"} :
          ring' = [ring EXCEPT !.read_idx = ring.write_index,
                               !.first = first,
                               !.r_pc = "r_first"]
    /\ UNCHANGED <<handoffVars, envVars, exit_status, x11_capture, mathVars,
                   smooth_follow, config_tear, probe, pacing, fov, segment, locks, slot>>

\* line 194: one word of the entry
RingReadFirst ==
    /\ ring.r_pc = "r_first"
    /\ ring' = [ring EXCEPT !.timestamp[ring.first] = ring.timestamps[ring.read_idx][ring.first],
                            !.r_pc = "r_second"]
    /\ UNCHANGED <<handoffVars, envVars, exit_status, x11_capture, mathVars,
                   smooth_follow, config_tear, probe, pacing, fov, segment, locks, slot>>

\* line 194: the other word, and the return
RingReadSecond ==
    /\ ring.r_pc = "r_second"
    /\ LET second == IF ring.first = "tv_sec" THEN "tv_nsec" ELSE "tv_sec"
           result == [ring.timestamp EXCEPT ![second] = ring.timestamps[ring.read_idx][second]]
       IN ring' = [ring EXCEPT !.timestamp = result,
                               !.returned = Append(@, result),
                               !.r_pc = "r_idle"]
    /\ UNCHANGED <<handoffVars, envVars, exit_status, x11_capture, mathVars,
                   smooth_follow, config_tear, probe, pacing, fov, segment, locks, slot>>

(***************************************************************************)
(* imu_reader.c on a segment file of any size: init_imu_reader lines 45-89 *)
(* maps st_size bytes whatever st_size is; read_latest_imu lines 106-150   *)
(* and read_device_config lines 153-208 index the mapping with the fixed   *)
(* offsets.  A mapping covers whole pages: the bytes of its last page      *)
(* behind the end of the file read as zero.  mmap of no bytes fails.       *)
(***************************************************************************)
\* the sizes fstat reports
SegmentSizes ==
    {0, 1, 2, OFFSET_DISPLAY_RES, OFFSET_DISPLAY_FOV,
     OFFSET_POSE_POSITION, OFFSET_EPOCH_MS, OFFSET_POSE_ORIENTATION,
     OFFSET_IMU_PARITY_BYTE, ShmSize, ShmSize + 1}

\* what the driver has written, before the file is cut to its size
SegmentContents == {DisabledImage} \cup {DriverImage(k) : k \in 1..MaxWrites}

\* the bytes a mapping of a file of st_size bytes shows
MappedView(file, st_size) == {p \in file : p[1] < st_size}

InitOutcomes == {"open_fails", "fstat_fails", "mmap_fails", "mapped"}

\* the highest offset a read of the segment dereferences
ReadReach(data) ==
    IF SegmentEnabled(data) THEN OFFSET_IMU_PARITY_BYTE ELSE OFFSET_ENABLED

Max(a, b) == IF a >= b THEN a ELSE b

SegmentIdle ==
    [pc |-> "s_init", file |-> DisabledImage, st_size |-> ShmSize,
     mapped |-> FALSE, shm_size |-> 0, reach |-> -1,
     imu |-> ZeroIMUData, config |-> ZeroDeviceConfig]

\* init_imu_reader
SegmentInitReader ==
    /\ segment.pc = "s_init"
    /\ \E outcome \in InitOutcomes :
          /\ segment.st_size = 0 => outcome # "mapped"
          /\ segment' =
                IF outcome = "mapped"
                THEN [segment EXCEPT !.mapped = TRUE,
                                     !.shm_size = segment.st_size,
                                     !.reach = OFFSET_VERSION,
                                     !.pc = "s_read_imu"]
                ELSE [segment EXCEPT !.pc = "s_failed"]
    /\ UNCHANGED <<handoffVars, envVars, exit_status, x11_capture, mathVars,
                   smooth_follow, config_tear, probe, pacing, fov, ring, locks, slot>>

\* read_latest_imu
SegmentReadImu ==
    /\ segment.pc = "s_read_imu"
    /\ LET data == MappedView(segment.file, segment.shm_size)
       IN segment' = [segment EXCEPT
                         !.imu = read_latest_imu(segment, data),
                         !.reach = Max(@, ReadReach(data)),
                         !.pc = "s_read_config"]
    /\ UNCHANGED <<handoffVars, envVars, exit_status, x11_capture, mathVars,
                   smooth_follow, config_tear, probe, pacing, fov, ring, locks, slot>>

\* read_device_config
SegmentReadConfig ==
    /\ segment.pc = "s_read_config"
    /\ LET data == MappedView(segment.file, segment.shm_size)
       IN segment' = [segment EXCEPT
                         !.config = read_device_config(segment, data),
                         !.reach = Max(@, ReadReach(data)),
                         !.pc = "s_done"]
    /\ UNCHANGED <<handoffVars, envVars, exit_status, x11_capture, mathVars,
                   smooth_follow, config_tear, probe, pacing, fov, ring, locks, slot>>

(***************************************************************************)
(* The two mutexes, statement by statement: reader->lock in                *)
(* read_latest_imu (imu_reader.c lines 106-150) and read_device_config     *)
(* (lines 153-208), both called by the render thread only, and             *)
(* dmabuf_mutex in capture_thread_func (lines 225-241) and render_frame    *)
(* (lines 712-727).  The driver rewrites the segment at any time: whether  *)
(* a read finds it enabled and its parity matching is open at each test.   *)
(***************************************************************************)
LocksIdle ==
    [reader_lock |-> "none", dmabuf_mutex |-> "none",
     mapped |-> TRUE, stop_requested |-> FALSE,
     c_pc |-> "c_loop", r_pc |-> "r_loop",
     imu_path |-> "none", config_path |-> "none"]

\* pthread_mutex_unlock(&reader->lock) and the return to the caller
ReaderUnlockReturn(l, path, caller_pc) ==
    IF l.r_pc \in {"ri_enabled", "ri_parity", "ri_copy"}
    THEN [l EXCEPT !.reader_lock = "none", !.imu_path = path, !.r_pc = caller_pc]
    ELSE [l EXCEPT !.reader_lock = "none", !.config_path = path, !.r_pc = caller_pc]

\* an early return that leaves the mutex locked
ReturnLocked(l, path, caller_pc) ==
    IF path = "copied"
    THEN ReaderUnlockReturn(l, path, caller_pc)
    ELSE IF l.r_pc \in {"ri_enabled", "ri_parity", "ri_copy"}
    THEN [l EXCEPT !.imu_path = path, !.r_pc = caller_pc]
    ELSE [l EXCEPT !.config_path = path, !.r_pc = caller_pc]

\* lines 117-118, 126-127, 149-150 (read_latest_imu) and 169-170, 177-178,
\* 207-208 (read_device_config)
ReaderReturn(l, path, caller_pc) == ReaderUnlockReturn(l, path, caller_pc)

\* main: request_stop of both threads
LocksMainStop ==
    /\ ~locks.stop_requested
    /\ locks' = [locks EXCEPT !.stop_requested = TRUE]
    /\ UNCHANGED <<handoffVars, envVars, exit_status, x11_capture, mathVars,
                   smooth_follow, config_tear, probe, pacing, fov, ring, segment, slot>>

\* capture_thread_func lines 217-222: the loop test and the export
LocksCaptureLoop ==
    /\ locks.c_pc = "c_loop"
    /\ \/ /\ locks.stop_requested
          /\ locks' = [locks EXCEPT !.c_pc = "c_done"]
       \/ /\ ~locks.stop_requested
          /\ \E exported \in BOOLEAN :
                locks' = [locks EXCEPT !.c_pc = IF exported THEN "c_lock" ELSE "c_loop"]
    /\ UNCHANGED <<handoffVars, envVars, exit_status, x11_capture, mathVars,
                   smooth_follow, config_tear, probe, pacing, fov, ring, segment, slot>>

\* line 226
LocksCaptureLock ==
    /\ locks.c_pc = "c_lock"
    /\ locks.dmabuf_mutex = "none"
    /\ locks' = [locks EXCEPT !.dmabuf_mutex = "capture", !.c_pc = "c_locked"]
    /\ UNCHANGED <<handoffVars, envVars, exit_status, x11_capture, mathVars,
                   smooth_follow, config_tear, probe, pacing, fov, ring, segment, slot>>

\* lines 228-241
LocksCaptureUnlock ==
    /\ locks.c_pc = "c_locked"
    /\ locks' = [locks EXCEPT !.dmabuf_mutex = "none", !.c_pc = "c_loop"]
    /\ UNCHANGED <<handoffVars, envVars, exit_status, x11_capture, mathVars,
                   smooth_follow, config_tear, probe, pacing, fov, ring, segment, slot>>

\* render_thread_func lines 318-330 and read_latest_imu lines 107-112: the loop
\* test, and the return before the lock when nothing is mapped
LocksRenderLoop ==
    /\ locks.r_pc = "r_loop"
    /\ locks' = IF locks.stop_requested
                THEN [locks EXCEPT !.r_pc = "r_done"]
                ELSE IF ~locks.mapped
                THEN [locks EXCEPT !.imu_path = "unmapped", !.r_pc = "r_config"]
                ELSE [locks EXCEPT !.r_pc = "ri_lock"]
    /\ UNCHANGED <<handoffVars, envVars, exit_status, x11_capture, mathVars,
                   smooth_follow, config_tear, probe, pacing, fov, ring, segment, slot>>

\* read_latest_imu line 110, read_device_config line 162
LocksReaderLock ==
    /\ locks.r_pc \in {"ri_lock", "rc_lock"}
    /\ locks.reader_lock = "none"
    /\ locks' = [locks EXCEPT !.reader_lock = "render",
                              !.r_pc = IF locks.r_pc = "ri_lock"
                                       THEN "ri_enabled" ELSE "rc_enabled"]
    /\ UNCHANGED <<handoffVars, envVars, exit_status, x11_capture, mathVars,
                   smooth_follow, config_tear, probe, pacing, fov, ring, segment, slot>>

\* lines 115-119 and 166-170: the enabled byte
LocksReaderEnabled ==
    /\ locks.r_pc \in {"ri_enabled", "rc_enabled"}
    /\ \E enabled \in BOOLEAN :
          locks' = IF enabled
                   THEN [locks EXCEPT !.r_pc = IF locks.r_pc = "ri_enabled"
                                                THEN "ri_parity" ELSE "rc_parity"]
                   ELSE ReaderReturn(locks, "disabled",
                                     IF locks.r_pc = "ri_enabled"
                                     THEN "r_config" ELSE "rf_lock")
    /\ UNCHANGED <<handoffVars, envVars, exit_status, x11_capture, mathVars,
                   smooth_follow, config_tear, probe, pacing, fov, ring, segment, slot>>

\* lines 122-128 and 173-178: the parity test
LocksReaderParity ==
    /\ locks.r_pc \in {"ri_parity", "rc_parity"}
    /\ \E matches \in BOOLEAN :
          locks' = IF matches
                   THEN [locks EXCEPT !.r_pc = IF locks.r_pc = "ri_parity"
                                                THEN "ri_copy" ELSE "rc_copy"]
                   ELSE ReaderReturn(locks, "parity",
                                     IF locks.r_pc = "ri_parity"
                                     THEN "r_config" ELSE "rf_lock")
    /\ UNCHANGED <<handoffVars, envVars, exit_status, x11_capture, mathVars,
                   smooth_follow, config_tear, probe, pacing, fov, ring, segment, slot>>

\* lines 130-150 and 180-208: the copies, the unlock and the return
LocksReaderCopy ==
    /\ locks.r_pc \in {"ri_copy", "rc_copy"}
    /\ locks' = ReaderReturn(locks, "copied",
                             IF locks.r_pc = "ri_copy" THEN "r_config" ELSE "rf_lock")
    /\ UNCHANGED <<handoffVars, envVars, exit_status, x11_capture, mathVars,
                   smooth_follow, config_tear, probe, pacing, fov, ring, segment, slot>>

\* render_thread_func lines 333-344 and read_device_config lines 157-159:
\* the refresh of the configuration when it is due
LocksRenderConfig ==
    /\ locks.r_pc = "r_config"
    /\ \E due \in BOOLEAN :
          locks' = IF ~due
                   THEN [locks EXCEPT !.r_pc = "rf_lock"]
                   ELSE IF ~locks.mapped
                   THEN [locks EXCEPT !.config_path = "unmapped", !.r_pc = "rf_lock"]
                   ELSE [locks EXCEPT !.r_pc = "rc_lock"]
    /\ UNCHANGED <<handoffVars, envVars, exit_status, x11_capture, mathVars,
                   smooth_follow, config_tear, probe, pacing, fov, ring, segment, slot>>

\* render_frame lines 704-714: the early return without the GL objects, or
\* the lock
LocksRenderLock ==
    /\ locks.r_pc = "rf_lock"
    /\ \/ locks' = [locks EXCEPT !.r_pc = "r_loop"]
       \/ /\ locks.dmabuf_mutex = "none"
          /\ locks' = [locks EXCEPT !.dmabuf_mutex = "render", !.r_pc = "rf_locked"]
    /\ UNCHANGED <<handoffVars, envVars, exit_status, x11_capture, mathVars,
                   smooth_follow, config_tear, probe, pacing, fov, ring, segment, slot>>

\* render_frame lines 716-727, and the rest of the iteration
LocksRenderUnlock ==
    /\ locks.r_pc = "rf_locked"
    /\ locks' = [locks EXCEPT !.dmabuf_mutex = "none", !.r_pc = "r_loop"]
    /\ UNCHANGED <<handoffVars, envVars, exit_status, x11_capture, mathVars,
                   smooth_follow, config_tear, probe, pacing, fov, ring, segment, slot>>

(***************************************************************************)
(* The slot, field by field: the five stores of capture_thread_func lines  *)
(* 235-239 and the five loads and the reset of render_frame lines 716-724, *)
(* each between the lock and the unlock of dmabuf_mutex.  A field holds    *)
(* the number of the publish that stored it, 0 for init_render_thread; the *)
(* descriptor field holds 0 as well once it has been consumed.             *)
(***************************************************************************)
\* publishes that are followed
MaxPublishes == 3

SlotFields ==
    <<"current_dmabuf_fd", "current_fb_id", "current_format", "current_stride",
      "current_modifier">>

SlotFieldCount == Len(SlotFields)

NoTuple == [f \in {SlotFields[i] : i \in 1..SlotFieldCount} |-> 0]

SlotIdle ==
    [dmabuf_mutex |-> "none", fields |-> NoTuple, publishes |-> 0,
     c_pc |-> "c_export", c_next |-> 1,
     r_pc |-> "r_lock", r_next |-> 1, taken |-> NoTuple, consumed |-> FALSE]

\* a lock that never waits
NeverWaits(holder) == TRUE

\* pthread_mutex_lock returns once no thread holds the mutex
MutexFree(holder) == holder = "none"

\* capture_thread_func lines 217-226: an export that succeeds, and the lock
SlotCaptureLock ==
    /\ slot.c_pc = "c_export"
    /\ slot.publishes < MaxPublishes
    /\ MutexFree(slot.dmabuf_mutex)
    /\ slot' = [slot EXCEPT !.dmabuf_mutex = "capture",
                            !.publishes = @ + 1,
                            !.c_next = 1,
                            !.c_pc = "c_store"]
    /\ UNCHANGED <<handoffVars, envVars, exit_status, x11_capture, mathVars,
                   smooth_follow, config_tear, probe, pacing, fov, ring, segment, locks>>

\* lines 235-239: one store
SlotCaptureStore ==
    /\ slot.c_pc = "c_store"
    /\ slot' = [slot EXCEPT !.fields[SlotFields[slot.c_next]] = slot.publishes,
                            !.c_next = @ + 1,
                            !.c_pc = IF slot.c_next = SlotFieldCount
                                     THEN "c_unlock" ELSE "c_store"]
    /\ UNCHANGED <<handoffVars, envVars, exit_status, x11_capture, mathVars,
                   smooth_follow, config_tear, probe, pacing, fov, ring, segment, locks>>

\* line 241
SlotCaptureUnlock ==
    /\ slot.c_pc = "c_unlock"
    /\ slot' = [slot EXCEPT !.dmabuf_mutex = IF @ = "capture" THEN "none" ELSE @,
                            !.c_pc = "c_export"]
    /\ UNCHANGED <<handoffVars, envVars, exit_status, x11_capture, mathVars,
                   smooth_follow, config_tear, probe, pacing, fov, ring, segment, locks>>

\* render_frame line 714
SlotRenderLock ==
    /\ slot.r_pc = "r_lock"
    /\ MutexFree(slot.dmabuf_mutex)
    /\ slot' = [slot EXCEPT !.dmabuf_mutex = "render",
                            !.r_next = 1,
                            !.consumed = FALSE,
                            !.r_pc = "r_load"]
    /\ UNCHANGED <<handoffVars, envVars, exit_status, x11_capture, mathVars,
                   smooth_follow, config_tear, probe, pacing, fov, ring, segment, locks>>

\* lines 716-720: one load
SlotRenderLoad ==
    /\ slot.r_pc = "r_load"
    /\ slot' = [slot EXCEPT !.taken[SlotFields[slot.r_next]] =
                                slot.fields[SlotFields[slot.r_next]],
                            !.r_next = @ + 1,
                            !.r_pc = IF slot.r_next = SlotFieldCount
                                     THEN "r_consume" ELSE "r_load"]
    /\ UNCHANGED <<handoffVars, envVars, exit_status, x11_capture, mathVars,
                   smooth_follow, config_tear, probe, pacing, fov, ring, segment, locks>>

\* lines 722-727: the mark as consumed and the unlock
SlotRenderUnlock ==
    /\ slot.r_pc = "r_consume"
    /\ slot' = [slot EXCEPT !.fields.current_dmabuf_fd =
                                IF slot.taken.current_dmabuf_fd # 0 THEN 0 ELSE @,
                            !.consumed = TRUE,
                            !.dmabuf_mutex = IF @ = "render" THEN "none" ELSE @,
                            !.r_pc = "r_lock"]
    /\ UNCHANGED <<handoffVars, envVars, exit_status, x11_capture, mathVars,
                   smooth_follow, config_tear, probe, pacing, fov, ring, segment, locks>>

(***************************************************************************)
(* Specifications.                                                         *)
(***************************************************************************)
Threads ==
    \/ CaptureExport \/ CaptureLock \/ CaptureStore \/ CaptureWriteFrame
    \/ RenderRead \/ RenderConfig \/ RenderTake \/ RenderUnlock
    \/ RenderImport \/ RenderDraw
    \/ MainCreateCapture \/ MainCreateRender \/ MainLoop \/ MainStopFlags
    \/ MainJoinRender \/ MainDestroyMutex \/ MainCleanupGl
    \/ MainCleanupSlotCheck \/ MainCleanupSlotClose \/ MainCleanupSlotStore
    \/ MainCleanupContext \/ MainJoinCapture \/ MainCleanupDrm \/ MainCleanupImu

\* the three threads of the renderer while the driver keeps one image published
\* and within one refresh period of the configuration
Init ==
    /\ HandoffInit(StackWords)
    /\ shm = DriverImage(1)
    /\ clock_ms = 1000
    /\ gate = GateIdle
    /\ tear = TearIdle
    /\ exit_status = NOT_EXITED
    /\ x11_capture = X11Idle
    /\ look_ahead = LookAheadIdle
    /\ slerp = SlerpIdle
    /\ smooth_follow = SmoothFollowIdle
    /\ slot = SlotIdle
    /\ locks = LocksIdle
    /\ segment = SegmentIdle
    /\ ring = RingIdle
    /\ fov = FovIdle
    /\ pacing = PacingIdle
    /\ probe = ProbeIdle
    /\ config_tear = ConfigTearIdle

Next == Threads

Spec == Init /\ [][Next]_vars

\* the steps of each thread: the scheduler runs every thread that can take a
\* step, and every call into the kernel or the driver returns
CaptureSteps == CaptureExport \/ CaptureLock \/ CaptureStore \/ CaptureWriteFrame

RenderSteps ==
    \/ RenderRead \/ RenderConfig \/ RenderTake \/ RenderUnlock
    \/ RenderImport \/ RenderDraw

MainSteps ==
    \/ MainCreateCapture \/ MainCreateRender \/ MainLoop \/ MainStopFlags
    \/ MainJoinRender \/ MainDestroyMutex \/ MainCleanupGl
    \/ MainCleanupSlotCheck \/ MainCleanupSlotClose \/ MainCleanupSlotStore
    \/ MainCleanupContext \/ MainJoinCapture \/ MainCleanupDrm \/ MainCleanupImu

\* the threads as Init starts them, in a process whose descriptor table has
\* room for all but one of the descriptors the kernel may hand out
FairInit ==
    /\ m_pc = "m_create_capture"
    /\ c_pc = "c_idle"
    /\ r_pc = "r_idle"
    /\ renderer = [running |-> TRUE, device_config |-> ZeroDeviceConfig,
                   last_config_update_ms |-> 0]
    /\ \E getfb_ok \in BOOLEAN :
          capture_thread =
             [init_capture_thread(1, getfb_ok) EXCEPT !.running = TRUE]
    /\ render_thread = [init_render_thread EXCEPT !.running = TRUE]
    /\ dmabuf_mutex = [holder |-> "none", destroyed |-> FALSE]
    /\ frame_buffer = init_frame_buffer(1920, 1080)
    /\ imu_reader = [mapped |-> TRUE, latest |-> ZeroIMUData]
    /\ fds = [d \in FdIds |-> IF d < MaxExports THEN UnusedFd
                              ELSE [UnusedFd EXCEPT !.state = "closed"]]
    /\ egl_images = [d \in FdIds |-> NoImage]
    /\ gl_uniforms = ZeroUniforms
    /\ c_local = InitCLocal
    /\ r_local = InitRLocal
    /\ m_local = NO_FD
    /\ joined = [capture |-> 0, render |-> 0]
    /\ last_published = NO_FD
    /\ last_draw = NoDraw
    /\ shm = DriverImage(1)
    /\ clock_ms = 1000
    /\ gate = GateIdle
    /\ tear = TearIdle
    /\ exit_status = NOT_EXITED
    /\ x11_capture = X11Idle
    /\ look_ahead = LookAheadIdle
    /\ slerp = SlerpIdle
    /\ smooth_follow = SmoothFollowIdle
    /\ slot = SlotIdle
    /\ locks = LocksIdle
    /\ segment = SegmentIdle
    /\ ring = RingIdle
    /\ fov = FovIdle
    /\ pacing = PacingIdle
    /\ config_tear = ConfigTearIdle
    /\ probe = ProbeIdle

FairSpec ==
    /\ FairInit /\ [][Next]_vars
    /\ WF_vars(CaptureSteps) /\ WF_vars(RenderSteps) /\ WF_vars(MainSteps)

\* the three threads, the driver and the clock: the segment starts disabled,
\* the driver publishes images and disables the segment while the render
\* thread runs, and the clock moves between the refreshes
PoseInit ==
    /\ HandoffInit({0})
    /\ shm = DisabledImage
    /\ clock_ms = 1000
    /\ gate = GateIdle
    /\ tear = TearIdle
    /\ exit_status = NOT_EXITED
    /\ x11_capture = X11Idle
    /\ look_ahead = LookAheadIdle
    /\ slerp = SlerpIdle
    /\ smooth_follow = SmoothFollowIdle
    /\ slot = SlotIdle
    /\ locks = LocksIdle
    /\ segment = SegmentIdle
    /\ ring = RingIdle
    /\ fov = FovIdle
    /\ pacing = PacingIdle
    /\ probe = ProbeIdle
    /\ config_tear = ConfigTearIdle

PoseNext == Threads \/ DriverWrite \/ DriverDisable \/ ClockChange

PoseSpec == PoseInit /\ [][PoseNext]_vars

\* the parity gate applied to single images
GateInit ==
    /\ HandoffInit({0})
    /\ capture_thread.fb_info # 0
    /\ shm \in GateImages
    /\ clock_ms = 1000
    /\ gate = [GateIdle EXCEPT !.image = shm]
    /\ tear = TearIdle
    /\ exit_status = NOT_EXITED
    /\ x11_capture = X11Idle
    /\ look_ahead = LookAheadIdle
    /\ slerp = SlerpIdle
    /\ smooth_follow = SmoothFollowIdle
    /\ slot = SlotIdle
    /\ locks = LocksIdle
    /\ segment = SegmentIdle
    /\ ring = RingIdle
    /\ fov = FovIdle
    /\ pacing = PacingIdle
    /\ probe = ProbeIdle
    /\ config_tear = ConfigTearIdle

GateNext == GateCorrupt \/ GateKeep \/ GateReadImu \/ GateReadConfig

GateSpec == GateInit /\ [][GateNext]_vars

\* read_latest_imu against the driver's byte-wise write
TearInit ==
    /\ HandoffInit({0})
    /\ capture_thread.fb_info # 0
    /\ shm = DriverImage(1)
    /\ clock_ms = 1000
    /\ gate = GateIdle
    /\ tear = TearIdle
    /\ exit_status = NOT_EXITED
    /\ x11_capture = X11Idle
    /\ look_ahead = LookAheadIdle
    /\ slerp = SlerpIdle
    /\ smooth_follow = SmoothFollowIdle
    /\ slot = SlotIdle
    /\ locks = LocksIdle
    /\ segment = SegmentIdle
    /\ ring = RingIdle
    /\ fov = FovIdle
    /\ pacing = PacingIdle
    /\ probe = ProbeIdle
    /\ config_tear = ConfigTearIdle

TearNext ==
    \/ DriverBeginWrite \/ DriverStoreByte
    \/ TearCall \/ TearEnabled \/ TearParityEpoch \/ TearParityOrientation
    \/ TearCompare \/ TearCopyPosition \/ TearCopyEpoch \/ TearCopyOrientation
    \/ TearReturn

TearSpec == TearInit /\ [][TearNext]_vars

\* main() from its first line: every start-up step may fail
StartInit ==
    /\ m_pc = "m_args"
    /\ c_pc = "c_idle"
    /\ r_pc = "r_idle"
    /\ renderer = [running |-> FALSE, device_config |-> ZeroDeviceConfig,
                   last_config_update_ms |-> 0]
    /\ capture_thread = ZeroCaptureThread
    /\ render_thread = ZeroRenderThread
    /\ dmabuf_mutex = [holder |-> "none", destroyed |-> FALSE]
    /\ frame_buffer = init_frame_buffer(0, 0)
    /\ imu_reader = [mapped |-> FALSE, latest |-> ZeroIMUData]
    /\ fds = [d \in FdIds |-> UnusedFd]
    /\ egl_images = [d \in FdIds |-> NoImage]
    /\ gl_uniforms = ZeroUniforms
    /\ c_local = InitCLocal
    /\ r_local = InitRLocal
    /\ m_local = NO_FD
    /\ joined = [capture |-> 0, render |-> 0]
    /\ last_published = NO_FD
    /\ last_draw = NoDraw
    /\ shm = DriverImage(1)
    /\ clock_ms = 1000
    /\ gate = GateIdle
    /\ tear = TearIdle
    /\ exit_status = NOT_EXITED
    /\ x11_capture = X11Idle
    /\ look_ahead = LookAheadIdle
    /\ slerp = SlerpIdle
    /\ smooth_follow = SmoothFollowIdle
    /\ slot = SlotIdle
    /\ locks = LocksIdle
    /\ segment = SegmentIdle
    /\ ring = RingIdle
    /\ fov = FovIdle
    /\ pacing = PacingIdle
    /\ probe = ProbeIdle
    /\ config_tear = ConfigTearIdle

StartNext ==
    \/ MainArgs \/ MainInitFrameBuffer \/ MainInitImu \/ MainInitCapture
    \/ MainInitRender \/ MainStart \/ Threads

StartSpec == StartInit /\ [][StartNext]_vars

\* the acquisition of the X11 renderer on its own
X11Init ==
    /\ HandoffInit({0})
    /\ capture_thread.fb_info # 0
    /\ shm = DriverImage(1)
    /\ clock_ms = 1000
    /\ gate = GateIdle
    /\ tear = TearIdle
    /\ exit_status = NOT_EXITED
    /\ x11_capture = X11Idle
    /\ look_ahead = LookAheadIdle
    /\ slerp = SlerpIdle
    /\ smooth_follow = SmoothFollowIdle
    /\ slot = SlotIdle
    /\ locks = LocksIdle
    /\ segment = SegmentIdle
    /\ ring = RingIdle
    /\ fov = FovIdle
    /\ pacing = PacingIdle
    /\ probe = ProbeIdle
    /\ config_tear = ConfigTearIdle

X11Next == X11InitDrmCapture \/ X11Export \/ X11Replace \/ X11CleanupDrmCapture

X11Spec == X11Init /\ [][X11Next]_vars

\* breezy_calculate_look_ahead_ms on each combination of arguments
LookAheadInit ==
    /\ HandoffInit({0})
    /\ capture_thread.fb_info # 0
    /\ shm = DriverImage(1)
    /\ clock_ms = 1000
    /\ gate = GateIdle
    /\ tear = TearIdle
    /\ exit_status = NOT_EXITED
    /\ x11_capture = X11Idle
    /\ \E imu_timestamp_ms \in LookAheadTimes, current_time_ms \in LookAheadTimes,
          look_ahead_constant \in LookAheadConstants,
          look_ahead_override \in LookAheadOverrides :
          look_ahead = [imu_timestamp_ms |-> imu_timestamp_ms,
                        current_time_ms |-> current_time_ms,
                        look_ahead_constant |-> look_ahead_constant,
                        look_ahead_override |-> look_ahead_override,
                        result |-> 0, called |-> FALSE]
    /\ slerp = SlerpIdle
    /\ smooth_follow = SmoothFollowIdle
    /\ slot = SlotIdle
    /\ locks = LocksIdle
    /\ segment = SegmentIdle
    /\ ring = RingIdle
    /\ fov = FovIdle
    /\ pacing = PacingIdle
    /\ probe = ProbeIdle
    /\ config_tear = ConfigTearIdle

LookAheadNext == LookAheadCall

LookAheadSpec == LookAheadInit /\ [][LookAheadNext]_vars

\* breezy_slerp_quaternion on each pair of unit quaternions and each t
SlerpInit ==
    /\ HandoffInit({0})
    /\ capture_thread.fb_info # 0
    /\ shm = DriverImage(1)
    /\ clock_ms = 1000
    /\ gate = GateIdle
    /\ tear = TearIdle
    /\ exit_status = NOT_EXITED
    /\ x11_capture = X11Idle
    /\ look_ahead = LookAheadIdle
    /\ \E q1 \in UnitQuats, q2 \in UnitQuats, t \in SlerpTs :
          slerp = [SlerpIdle EXCEPT !.q1 = q1, !.q2 = q2, !.t = t]
    /\ smooth_follow = SmoothFollowIdle
    /\ slot = SlotIdle
    /\ locks = LocksIdle
    /\ segment = SegmentIdle
    /\ ring = RingIdle
    /\ fov = FovIdle
    /\ pacing = PacingIdle
    /\ probe = ProbeIdle
    /\ config_tear = ConfigTearIdle

SlerpNext == SlerpCall

SlerpSpec == SlerpInit /\ [][SlerpNext]_vars

\* the threads at rest, for the specifications of single functions
ThreadsAtRest ==
    /\ HandoffInit({0})
    /\ capture_thread.fb_info # 0
    /\ shm = DriverImage(1)
    /\ clock_ms = 1000
    /\ gate = GateIdle
    /\ tear = TearIdle
    /\ exit_status = NOT_EXITED
    /\ x11_capture = X11Idle
    /\ look_ahead = LookAheadIdle
    /\ slerp = SlerpIdle

\* read_device_config against the driver's byte-wise writes
ConfigTearInit ==
    /\ ThreadsAtRest
    /\ smooth_follow = SmoothFollowIdle
    /\ slot = SlotIdle
    /\ locks = LocksIdle
    /\ segment = SegmentIdle
    /\ ring = RingIdle
    /\ fov = FovIdle
    /\ pacing = PacingIdle
    /\ probe = ProbeIdle
    /\ config_tear = ConfigTearIdle

ConfigTearNext ==
    \/ DriverBeginWrite \/ DriverStoreByte
    \/ ConfigTearCall \/ ConfigTearEnabled \/ ConfigTearParity \/ ConfigTearCompare
    \/ ConfigTearCopyLookAhead \/ ConfigTearCopyResolution \/ ConfigTearCopyLens
    \/ ConfigTearCopyRest \/ ConfigTearReturn

ConfigTearSpec == ConfigTearInit /\ [][ConfigTearNext]_vars

\* find_drm_device_for_framebuffer on each directory of up to MaxNodes entries
ProbeInit ==
    /\ ThreadsAtRest
    /\ smooth_follow = SmoothFollowIdle
    /\ slot = SlotIdle
    /\ locks = LocksIdle
    /\ segment = SegmentIdle
    /\ ring = RingIdle
    /\ fov = FovIdle
    /\ pacing = PacingIdle
    /\ config_tear = ConfigTearIdle
    /\ \E nodes \in Directories(MaxNodes) : probe = [ProbeIdle EXCEPT !.nodes = nodes]

ProbeNext == FindDrmDevice

ProbeSpec == ProbeInit /\ [][ProbeNext]_vars

\* the rates of each command line, followed into either thread loop
PacingInit ==
    /\ ThreadsAtRest
    /\ smooth_follow = SmoothFollowIdle
    /\ slot = SlotIdle
    /\ locks = LocksIdle
    /\ segment = SegmentIdle
    /\ ring = RingIdle
    /\ fov = FovIdle
    /\ config_tear = ConfigTearIdle
    /\ probe = ProbeIdle
    /\ \E loop \in {"capture", "render"}, capture_fps \in ArgRates, render_fps \in ArgRates :
          pacing = [PacingIdle EXCEPT !.loop = loop,
                                      !.argv = [capture_fps |-> capture_fps,
                                                render_fps |-> render_fps]]

PacingNext ==
    PacingMainArgs \/ PacingInitThreads \/ PacingThreadStart \/ PacingIterate

PacingSpec == PacingInit /\ [][PacingNext]_vars

\* breezy_smooth_follow_slerp_progress on each pair of elapsed times
SmoothFollowInit ==
    /\ ThreadsAtRest
    /\ \E a \in SmoothFollowTimes, b \in SmoothFollowTimes :
          smooth_follow = [SmoothFollowIdle EXCEPT !.a = a, !.b = b]
    /\ config_tear = ConfigTearIdle
    /\ probe = ProbeIdle
    /\ pacing = PacingIdle
    /\ fov = FovIdle
    /\ ring = RingIdle
    /\ segment = SegmentIdle
    /\ locks = LocksIdle
    /\ slot = SlotIdle

SmoothFollowNext == SmoothFollowCall

SmoothFollowSpec == SmoothFollowInit /\ [][SmoothFollowNext]_vars

\* set_shader_uniforms on each field of view and resolution
FovInit ==
    /\ ThreadsAtRest
    /\ smooth_follow = SmoothFollowIdle
    /\ slot = SlotIdle
    /\ locks = LocksIdle
    /\ segment = SegmentIdle
    /\ ring = RingIdle
    /\ config_tear = ConfigTearIdle
    /\ probe = ProbeIdle
    /\ pacing = PacingIdle
    /\ \E display_fov \in DisplayFovs, display_resolution \in DisplayResolutions :
          fov = [FovIdle EXCEPT !.display_fov = display_fov,
                                !.display_resolution = display_resolution]

FovNext == FovSetUniforms

FovSpec == FovInit /\ [][FovNext]_vars

\* the capture thread's write_frame against the render thread's
\* read_latest_frame
RingInit ==
    /\ ThreadsAtRest
    /\ smooth_follow = SmoothFollowIdle
    /\ slot = SlotIdle
    /\ locks = LocksIdle
    /\ segment = SegmentIdle
    /\ config_tear = ConfigTearIdle
    /\ probe = ProbeIdle
    /\ pacing = PacingIdle
    /\ fov = FovIdle
    /\ ring = RingIdle

RingNext ==
    \/ RingWriteBegin \/ RingWriteSec \/ RingWriteNsec \/ RingWriteIndex
    \/ RingReadIndex \/ RingReadFirst \/ RingReadSecond

RingSpec == RingInit /\ [][RingNext]_vars

\* the reader on each segment file
SegmentInit ==
    /\ ThreadsAtRest
    /\ smooth_follow = SmoothFollowIdle
    /\ slot = SlotIdle
    /\ locks = LocksIdle
    /\ config_tear = ConfigTearIdle
    /\ probe = ProbeIdle
    /\ pacing = PacingIdle
    /\ fov = FovIdle
    /\ ring = RingIdle
    /\ \E st_size \in SegmentSizes, content \in SegmentContents :
          segment = [SegmentIdle EXCEPT
                        !.st_size = st_size,
                        !.file = {p \in content : p[1] < st_size}]

SegmentNext == SegmentInitReader \/ SegmentReadImu \/ SegmentReadConfig

SegmentSpec == SegmentInit /\ [][SegmentNext]_vars

\* the three threads at the two mutexes
LocksInit ==
    /\ ThreadsAtRest
    /\ smooth_follow = SmoothFollowIdle
    /\ slot = SlotIdle
    /\ config_tear = ConfigTearIdle
    /\ probe = ProbeIdle
    /\ pacing = PacingIdle
    /\ fov = FovIdle
    /\ ring = RingIdle
    /\ segment = SegmentIdle
    /\ \E mapped \in BOOLEAN : locks = [LocksIdle EXCEPT !.mapped = mapped]

LocksNext ==
    \/ LocksMainStop
    \/ LocksCaptureLoop \/ LocksCaptureLock \/ LocksCaptureUnlock
    \/ LocksRenderLoop \/ LocksReaderLock \/ LocksReaderEnabled
    \/ LocksReaderParity \/ LocksReaderCopy \/ LocksRenderConfig
    \/ LocksRenderLock \/ LocksRenderUnlock

LocksSpec == LocksInit /\ [][LocksNext]_vars

\* publishes against consumes
SlotInit ==
    /\ ThreadsAtRest
    /\ smooth_follow = SmoothFollowIdle
    /\ config_tear = ConfigTearIdle
    /\ probe = ProbeIdle
    /\ pacing = PacingIdle
    /\ fov = FovIdle
    /\ ring = RingIdle
    /\ segment = SegmentIdle
    /\ locks = LocksIdle
    /\ slot = SlotIdle

SlotNext ==
    \/ SlotCaptureLock \/ SlotCaptureStore \/ SlotCaptureUnlock
    \/ SlotRenderLock \/ SlotRenderLoad \/ SlotRenderUnlock

SlotSpec == SlotInit /\ [][SlotNext]_vars

(***************************************************************************)
(* Properties of the descriptor handoff.                                   *)
(***************************************************************************)
Exported == {d \in FdIds : fds[d].state # "unused"}

\* C1: the slot holds only the newest descriptor.  What the render thread takes
\* out of the slot is the descriptor of the latest publish, and a descriptor
\* that a later publish replaced in the slot is never taken by the render
\* thread, under every interleaving.
C1_SlotHoldsNewest ==
    /\ (r_pc = "rf_unlock" /\ r_local.dmabuf_fd >= 0)
          => r_local.dmabuf_fd = last_published
    /\ \A d \in FdIds : ~(fds[d].overwritten /\ fds[d].consumed)

\* two publishes before any take, then the take yields the second descriptor
C1_Witness ==
    /\ r_pc = "rf_unlock"
    /\ r_local.dmabuf_fd = 2
    /\ fds[1].overwritten
    /\ ~fds[1].consumed

\* C2: no exported handle is dropped.  A descriptor that a publish replaced in
\* the slot before the render thread took it has been closed, whether or not
\* the buffer identity changed, and when the session has ended every exported
\* descriptor has been closed or was taken by the render thread.
C2_NoHandleDropped ==
    \A d \in FdIds :
       /\ fds[d].overwritten => fds[d].closes >= 1
       /\ (m_pc = "m_done" /\ d \in Exported)
             => (fds[d].closes >= 1 \/ fds[d].consumed)

\* C3: no descriptor handle is closed more than once, by the capture loop's
\* close on overwrite, the render loop's close on import failure and
\* cleanup_dmabuf_texture together.
C3_ClosedAtMostOnce == \A d \in FdIds : fds[d].closes <= 1

\* C4: each descriptor is passed to import_dmabuf_as_texture at most once, the
\* slot is empty when the render thread leaves the critical section in which it
\* took the handle, and an iteration that found the slot empty imports nothing.
C4_ImportedAtMostOnce ==
    /\ \A d \in FdIds : fds[d].imports <= 1
    /\ r_pc = "rf_unlock" => render_thread.current_dmabuf_fd = NO_FD
    /\ (r_pc = "rf_draw" /\ r_local.dmabuf_fd = NO_FD)
          => \A d \in FdIds : fds[d].imports = 0 \/ fds[d].consumed

\* a descriptor was imported, and a later iteration found the slot empty
C4_Witness ==
    /\ r_pc = "rf_draw"
    /\ r_local.dmabuf_fd = NO_FD
    /\ \E d \in FdIds : fds[d].imports = 1

\* the handles the render side holds open after importing them
ImportedOpen == {d \in FdIds : fds[d].imports > 0 /\ fds[d].state = "open"}

\* C5: the render side holds at most one imported handle open: the handle of a
\* superseded descriptor is released when a new descriptor is imported.
C5_OneImportedHandleOpen == Cardinality(ImportedOpen) <= 1

(***************************************************************************)
(* Properties of the shared-memory reader.                                 *)
(***************************************************************************)
\* the gate as the segment layout states it: enabled byte at offset 1 set, and
\* the XOR of the bytes at 113..184 equal to the byte at 185
GatePasses(data) == ByteAt(data, 1) # 0 /\ XorRange(data, 113, 185) = ByteAt(data, 185)

\* C6: read_latest_imu and read_device_config return a valid snapshot only if
\* the enabled byte is set and the XOR over [113, 185) equals the byte at 185;
\* an accepted image with one byte of that range changed is rejected by both
\* reads, and the unmodified image is accepted by both.
C6_ParityGate ==
    gate.pc = "g_done" =>
       /\ (gate.imu.valid \/ gate.config.valid) => GatePasses(shm)
       /\ (gate.corrupted # -1 /\ GatePasses(gate.image))
             => (~gate.imu.valid /\ ~gate.config.valid)
       /\ (gate.corrupted = -1 /\ GatePasses(gate.image))
             => (gate.imu = CopyIMUData(gate.image)
                 /\ gate.config = CopyDeviceConfig(gate.image))

\* an accepted image had its first checksummed byte changed and was rejected
C6_Witness ==
    /\ gate.pc = "g_done"
    /\ gate.corrupted = 113
    /\ gate.image = DriverImage(1)
    /\ ~gate.imu.valid
    /\ ~gate.config.valid

\* C7: every sample read_latest_imu returns as valid has its position,
\* timestamp and orientation history from one complete write of the driver.
C7_NoTornSample ==
    (tear.pc = "t_return" /\ tear.result.valid)
       => \E n \in 1..MaxWrites : tear.result = CopyIMUData(DriverImage(n))

(***************************************************************************)
(* Properties of the render loop's pose and configuration.                 *)
(***************************************************************************)
\* C8: a configuration refresh that returns absent leaves the cached
\* DeviceConfig unchanged: the last accepted configuration stays, and stays
\* valid.
C8_AbsentRefreshKeepsCache ==
    [][(r_pc = "r_config"
        /\ renderer.device_config.valid
        /\ ~read_device_config(imu_reader, shm).valid)
          => renderer'.device_config = renderer.device_config]_vars

\* C9: every frame drawn uses the pose of an accepted sample: the uniforms of
\* the draw hold a pose that was uploaded, never the zero pose of a program
\* whose pose was never set.
C9_DrawUsesAcceptedPose ==
    last_draw.drawn => last_draw.pose_orientation # ZeroBytes

(***************************************************************************)
(* Properties of the shutdown.                                             *)
(***************************************************************************)
\* a thread that was created has ended and been joined
CaptureGone == c_pc = "c_idle" \/ joined.capture > 0
RenderGone == r_pc = "r_idle" \/ joined.render > 0

\* C10: the handoff lock, the descriptor in the slot, the GPU objects, the
\* shared-memory mapping and the device handles are released only after both
\* threads have been joined, GPU objects before the mapping and the mapping
\* before the device handles.
C10_JoinedBeforeRelease ==
    /\ (\/ dmabuf_mutex.destroyed
        \/ m_pc \in {"m_cdt_store", "m_cr_ctx"}
        \/ render_thread.shader_program = 0
        \/ ~render_thread.gl_context
        \/ ~imu_reader.mapped
        \/ ~capture_thread.drm_fd)
          => (CaptureGone /\ RenderGone)
    /\ ~imu_reader.mapped => ~render_thread.gl_context
    /\ ~capture_thread.drm_fd => ~imu_reader.mapped

(***************************************************************************)
(* Properties of start-up and exit.                                        *)
(***************************************************************************)
\* C11: on every path through main(), pthread_join is called for a thread
\* only if that thread was created, at most once per thread, and main() does
\* not return before it has joined every thread it created
C11_JoinIffCreated ==
    /\ joined.capture <= 1
    /\ joined.render <= 1
    /\ joined.capture > 0 => c_pc # "c_idle"
    /\ joined.render > 0 => r_pc # "r_idle"
    /\ m_pc = "m_done" =>
          /\ c_pc # "c_idle" => joined.capture = 1
          /\ r_pc # "r_idle" => joined.render = 1

\* the capture thread was created, the render thread was not, and main() has
\* returned after joining the one and not the other
C11_Witness ==
    /\ m_pc = "m_done"
    /\ c_pc = "c_done"
    /\ r_pc = "r_idle"
    /\ joined = [capture |-> 1, render |-> 0]

\* C14: main() returns a non-zero status whenever start-up failed, that is
\* whenever it returns without the render thread ever having been created
C14_FailureExitsNonZero ==
    (m_pc = "m_done" /\ r_pc = "r_idle") => exit_status # 0

(***************************************************************************)
(* Properties of the frame acquisition.                                    *)
(***************************************************************************)
\* the acquisition is able to export: whatever buffer the CRTC shows, a call
\* on which every kernel lookup succeeds returns 0 and has adopted that buffer
AcquisitionCanExport(thread) ==
    \A buffer_id \in FbIds, prime_fd \in FdIds :
        LET res == export_drm_framebuffer_to_dmabuf(thread, InitCLocal, buffer_id,
                                                    TRUE, TRUE, prime_fd)
        IN res.ret = 0 /\ res.thread.fb_id = buffer_id

\* C12: a replaced buffer or a lookup that fails on one call never leaves the
\* acquisition permanently failing: while the device is open, an acquisition
\* that was able to export is still able to after any step
C12_InvalidationRecovers ==
    [][(AcquisitionCanExport(capture_thread) /\ capture_thread'.drm_fd)
           => AcquisitionCanExport(capture_thread')]_vars

\* C13: the X11 export returns -2 exactly when the acquisition is initialised
\* (device open, buffer metadata cached) and the lookup of the buffer fails, -1
\* exactly when it is not initialised or the handle export fails, and a failed
\* call leaves the caller's output and the acquisition state as they were
C13_BufferGoneIsDistinct ==
    LET c == x11_capture.call
        initialised == c.thread.drm_fd /\ c.thread.fb_info # 0
    IN c.made =>
          /\ (c.ret = -2) <=> (initialised /\ ~c.getfb_ok)
          /\ (c.ret = -1) <=> (~initialised \/ (c.getfb_ok /\ c.prime_fd < 0))
          /\ c.ret < 0 => /\ x11_capture.out = c.out
                          /\ x11_capture.thread = c.thread

\* an export on an initialised acquisition whose buffer the compositor has
\* replaced, after an earlier export had delivered a descriptor
C13_Witness ==
    /\ x11_capture.call.made
    /\ x11_capture.call.ret = -2
    /\ x11_capture.out.dmabuf_fd # NO_FD
    /\ x11_capture.thread.cached_dmabuf_fd # NO_FD

(***************************************************************************)
(* Properties of the render and capture loops.                             *)
(***************************************************************************)
\* C15: the handoff mutex is held only around the swap of the slot: by the
\* capture thread only between its lock and the end of its stores, never
\* during the export or the pacing sleep, and by the render thread only
\* between its lock and its unlock, never during the import, the draw, the
\* buffer swap or the sleep, so that none of these delays a publish
C15_LockOnlyAroundSwap ==
    /\ dmabuf_mutex.holder = "capture" => c_pc = "c_store"
    /\ dmabuf_mutex.holder = "render" => r_pc = "rf_unlock"

\* the capture thread publishes, holding the mutex, while the render thread
\* is importing the descriptor it took
C15_Witness ==
    /\ r_pc = "rf_import"
    /\ r_local.dmabuf_fd # NO_FD
    /\ c_pc = "c_store"
    /\ dmabuf_mutex.holder = "capture"

LiveImages == {d \in FdIds : egl_images[d].state = "live"}

\* C16: whenever import_dmabuf_as_texture has returned, at most one imported
\* EGL image exists, and an image that exists is the one recorded as current:
\* the image bound before was destroyed by the import that replaced it
C16_OneImportedImage ==
    /\ Cardinality(LiveImages) <= 1
    /\ \A d \in LiveImages : render_thread.frame_egl_image = d

\* a second import has succeeded: the first image is destroyed, the second is
\* current and about to be drawn
C16_Witness ==
    /\ r_pc = "rf_draw"
    /\ \E d \in FdIds, e \in FdIds :
          /\ egl_images[d].state = "destroyed"
          /\ egl_images[d].destroys = 1
          /\ egl_images[e].state = "live"
          /\ render_thread.frame_egl_image = e

\* the step of render_frame in which the import of the taken descriptor fails
ImportFails == r_pc = "rf_import" /\ r_pc' = "r_loop"

\* a descriptor that was passed to the import and closed afterwards
FailedImports ==
    {d \in FdIds : fds[d].imports > 0 /\ fds[d].state = "closed"}

\* C17: when the import of a taken descriptor fails, the render thread closes
\* that descriptor, once, and returns to its loop without a draw call in that
\* iteration; the descriptor is in the slot no more and nothing is done with
\* it again: no second import and no second close
C17_FailedImportClosesOnce ==
    [][/\ ImportFails =>
             /\ fds[r_local.dmabuf_fd].state = "open"
             /\ fds'[r_local.dmabuf_fd].state = "closed"
             /\ fds'[r_local.dmabuf_fd].closes = 1
             /\ fds'[r_local.dmabuf_fd].imports = 1
             /\ ~last_draw'.drawn
             /\ render_thread'.current_dmabuf_fd # r_local.dmabuf_fd
       /\ \A d \in FailedImports :
             /\ fds'[d] = fds[d]
             /\ render_thread'.current_dmabuf_fd # d
             /\ r_local'.dmabuf_fd # d]_vars

\* an import has failed and the render thread is back in its loop, the
\* descriptor closed once
C17_Witness ==
    /\ r_pc = "r_loop"
    /\ \E d \in FailedImports : fds[d].closes = 1 /\ fds[d].consumed

\* C18: an iteration of the render loop that issues the draw call has
\* uploaded the uniform set in that same iteration, whatever the validity of
\* the pose and of the configuration
C18_DrawHasUniforms ==
    last_draw.drawn => last_draw.uniforms_set

(***************************************************************************)
(* Properties of the shared math functions.                                *)
(***************************************************************************)
\* max(now - imu_ts, 0) plus the override when it is >= 0, else the constant
ExactLookAhead(la) ==
    (IF la.current_time_ms > la.imu_timestamp_ms
     THEN la.current_time_ms - la.imu_timestamp_ms ELSE 0)
    + (IF la.look_ahead_override >= 0
       THEN la.look_ahead_override ELSE la.look_ahead_constant)

SameDirection(a, b) ==
    /\ \A i \in 1..4, j \in 1..4 : a[i] * b[j] = a[j] * b[i]
    /\ QuatDot(a, b) > 0

\* q and -q are the same rotation
SameRotation(a, b) == SameDirection(a, b) \/ SameDirection(a, QuatScale(-1, b))

\* C20: for unit quaternions q1 and q2, breezy_slerp_quaternion(q1, q2, 0) is q1
\* and breezy_slerp_quaternion(q1, q2, 1) is q2 as a rotation,
\* breezy_slerp_quaternion(q, q, t) is q for every t, a t outside [0, 1] gives
\* what the nearest bound gives, and the result always has unit length
C20_SlerpEndpoints ==
    slerp.called =>
       /\ slerp.result.unit
       /\ slerp.t = 0 => SameDirection(slerp.result.direction, slerp.q1)
       /\ slerp.t = SlerpOne => SameRotation(slerp.result.direction, slerp.q2)
       /\ slerp.q1 = slerp.q2 => SameDirection(slerp.result.direction, slerp.q1)
       /\ slerp.t < 0 => SameDirection(slerp.result.direction, slerp.q1)
       /\ slerp.t > SlerpOne => SameRotation(slerp.result.direction, slerp.q2)

\* halfway between a quaternion and one that lies in the opposite half-space:
\* the shorter path is taken and the result has unit length
C20_Witness ==
    /\ slerp.called
    /\ slerp.t = 1
    /\ QuatDot(slerp.q1, slerp.q2) < 0
    /\ slerp.result.unit

\* C21: for q1 and q2 with a negative dot product, breezy_slerp_quaternion
\* gives for (q1, q2, t) what it gives for (q1, -q2, t), for every t: negating
\* the second operand does not change the interpolated path
C21_NegatedOperandSamePath ==
    (slerp.called /\ QuatDot(slerp.q1, slerp.q2) < 0) =>
       slerp.result =
          breezy_slerp_quaternion(slerp.q1, QuatScale(-1, slerp.q2), slerp.t)

\* halfway between two quaternions 120 degrees apart: the result lies
\* between q1 and -q2
C21_Witness ==
    /\ slerp.called
    /\ slerp.t = 1
    /\ QuatDot(slerp.q1, slerp.q2) = -2
    /\ slerp.result.direction =
          QuatAdd(slerp.q1, QuatScale(-1, slerp.q2))

\* the progress at 0 is 0 and the progress at 1000 ms is 0.999 within 1e-3
SmoothFollowAnchors ==
    /\ smooth_follow.a = 0 => smooth_follow.progress_a = 0
    /\ smooth_follow.a = SMOOTH_FOLLOW_SLERP_TIMELINE_MS =>
          LET miss == FloatPrecision - smooth_follow.progress_a
          IN 0 <= miss /\ miss <= (2 * FloatPrecision) \div 1000

\* C22, as stated: breezy_smooth_follow_slerp_progress(0) is 0,
\* breezy_smooth_follow_slerp_progress(1000) is 0.999 within 1e-3, and for all
\* elapsed times a < b the progress at a is strictly less than the progress at b
C22_ProgressStrictlyIncreasing ==
    smooth_follow.called =>
       /\ SmoothFollowAnchors
       /\ smooth_follow.a < smooth_follow.b =>
             smooth_follow.progress_a < smooth_follow.progress_b

\* C22, amended: the same values at 0 and at 1000 ms, and the progress never
\* decreases and never exceeds 1: for a < b the progress at a is at most the
\* progress at b, which is at most 1
C22_ProgressNeverDecreases ==
    smooth_follow.called =>
       /\ SmoothFollowAnchors
       /\ smooth_follow.a < smooth_follow.b =>
             /\ smooth_follow.progress_a <= smooth_follow.progress_b
             /\ smooth_follow.progress_b <= FloatPrecision

\* the progress after one timeline and after two: 0.999 and more
C22_Witness ==
    /\ smooth_follow.called
    /\ smooth_follow.a = SMOOTH_FOLLOW_SLERP_TIMELINE_MS
    /\ smooth_follow.b = 2 * SMOOTH_FOLLOW_SLERP_TIMELINE_MS
    /\ smooth_follow.progress_a < smooth_follow.progress_b
    /\ smooth_follow.progress_b < FloatPrecision

\* the render thread is in an iteration that passed its new-frame check
RenderPastFrameCheck ==
    r_pc \in {"r_config", "rf_take", "rf_unlock", "rf_import", "rf_draw"}

\* C23: while the capture thread has published no frame (the case before the
\* first publish), read_latest_frame reports no frame and the render iteration
\* goes back to sleep: the render thread is never past its new-frame check
\* with nothing published
C23_NoFrameNoIteration ==
    (frame_buffer.frame_count = 0 /\ r_pc # "r_idle") =>
       ~RenderPastFrameCheck

\* C24: every DeviceConfig that read_device_config returns as valid has all
\* its configuration fields from one complete write of the driver.
C24_NoTornConfig ==
    (config_tear.pc = "k_return" /\ config_tear.result.valid)
       => \E n \in 1..MaxWrites :
             config_tear.result = CopyDeviceConfig(DriverImage(n))

C26_InitSuccessHasMetadata ==
    (m_pc = "m_init_render") =>
       (capture_thread.drm_fd /\ capture_thread.fb_info # 0)

\* the entries of a prefix that this process can open and that resolve fb_id
Resolving(nodes, prefix) ==
    {i \in 1..Len(nodes) : nodes[i].prefix = prefix /\ nodes[i].resolves}

\* C27: find_drm_device_for_framebuffer returns a render node whenever a render
\* node can be opened and resolves the buffer identity, a card node only when
\* no render node does and some card node does, fails only when no node of
\* either kind does, and has closed every device handle it opened.
C27_RenderNodePreferred ==
    probe.called =>
       LET render == Resolving(probe.nodes, "renderD")
           card == Resolving(probe.nodes, "card")
       IN /\ render # {} => (probe.ret = 0 /\ probe.path \in render)
          /\ (render = {} /\ card # {}) => (probe.ret = 0 /\ probe.path \in card)
          /\ (render = {} /\ card = {}) <=> probe.ret = -1
          /\ probe.handles.opened = probe.handles.closed

\* a card node listed first resolves the identity, and so does a render node
C27_Witness ==
    /\ probe.called
    /\ Len(probe.nodes) = 2
    /\ probe.nodes[1].prefix = "card" /\ probe.nodes[1].resolves
    /\ probe.nodes[2].prefix = "renderD" /\ probe.nodes[2].resolves
    /\ probe.ret = 0 /\ probe.path = 2
    /\ probe.handles.closed = {2}

\* C28: once a descriptor has been exported for a buffer identity, a later
\* frame of the same identity reuses it and exports nothing further: an
\* export step that leaves the identity unchanged, while the slot holds a
\* descriptor exported for that identity, delivers that descriptor.
C28_ExportReusesDescriptor ==
    [][(/\ c_pc = "c_loop" /\ c_pc' = "c_lock"
        /\ capture_thread'.fb_id = capture_thread.fb_id
        /\ render_thread.current_dmabuf_fd >= 0
        /\ render_thread.current_fb_id = capture_thread.fb_id)
          => c_local'.dmabuf_fd = render_thread.current_dmabuf_fd]_vars

\* the GPU objects: program, quad, texture, image and the uniforms
GlObjects ==
    <<render_thread.shader_program, render_thread.vao, render_thread.frame_texture,
      render_thread.frame_egl_image, egl_images, gl_uniforms>>

\* C29: every graphics call is issued by the render thread: no step of the
\* main thread, in initialisation or in cleanup, creates, changes or deletes a
\* GPU object.
C29_MainIssuesNoGraphicsCalls ==
    [][m_pc' # m_pc => GlObjects' = GlObjects]_vars

\* C30: after its first iteration the render loop refreshes the configuration
\* only in an iteration whose wall-clock reading is more than 1000 ms later
\* than the reading stored at the previous refresh.
C30_RefreshOnlyAfterPeriod ==
    [][(/\ r_pc = "r_config" /\ r_pc' = "rf_take"
        /\ renderer.last_config_update_ms # 0
        /\ renderer'.last_config_update_ms # renderer.last_config_update_ms)
          => clock_ms - renderer.last_config_update_ms > CONFIG_REFRESH_MS]_vars

\* the target k frame periods after the start, the period being that of rate
RECURSIVE TargetAfter(_, _, _)
TargetAfter(start, rate, k) ==
    IF k = 0 THEN start
    ELSE AdvanceTarget(TargetAfter(start, rate, k - 1), FrameTimeOf(rate))

\* C31: after k completed iterations the scheduled frame boundary of a thread
\* loop is the loop's start time plus k frame periods of its rate, and its
\* nanosecond field is within [0, 1e9).
C31_TargetIsStartPlusPeriods ==
    pacing.pc = "p_loop" =>
       /\ pacing.next_frame_time =
             TargetAfter(pacing.start,
                         IF pacing.loop = "capture" THEN pacing.argv.capture_fps
                         ELSE pacing.argv.render_fps,
                         pacing.iterations)
       /\ pacing.next_frame_time.tv_nsec \in 0..(NSEC_PER_SEC - 1)

\* C32: when the threads start, the capture thread's framerate is the
\* capture-fps argument and the render thread's refresh_rate is the render-fps
\* argument, and the frame period of each loop is 1 / its rate.
C32_RatesAreTheArguments ==
    pacing.pc = "p_loop" =>
       /\ pacing.framerate = pacing.argv.capture_fps
       /\ pacing.refresh_rate = pacing.argv.render_fps
       /\ pacing.frame_time =
             FrameTimeOf(IF pacing.loop = "capture" THEN pacing.argv.capture_fps
                         ELSE pacing.argv.render_fps)

\* the tangents of half the horizontal and half the vertical field of view of
\* breezy_diagonal_to_cross_fovs
LibraryHalfWidths(display_fov, width, height) ==
    LET fovs == breezy_diagonal_to_cross_fovs(display_fov, width, height)
    IN <<Tan(fovs.horizontal \div 2), Tan(fovs.vertical \div 2)>>

\* a and b differ by no more than a thousandth of b
Near(a, b) == a - b <= b \div MILLI /\ b - a <= b \div MILLI

\* C33: the FOV half-widths the render loop uploads equal tan(h/2) and tan(v/2)
\* for the horizontal and vertical FOVs h and v that
\* breezy_diagonal_to_cross_fovs yields for the configured diagonal FOV and the
\* display aspect ratio.
C33_HalfWidthsFromLibrary ==
    fov.pc = "f_uploaded" =>
       LET library == LibraryHalfWidths(fov.display_fov * MILLI,
                                        fov.display_resolution[1],
                                        fov.display_resolution[2])
       IN /\ Near(fov.fov_half_widths[1], library[1])
          /\ Near(fov.fov_half_widths[2], library[2])

\* C34: the timestamps that successive read_latest_frame calls return never
\* decrease, each is a timestamp that one write_frame call stored in full (or
\* the initial one), and write_index stays in 0..2, under every interleaving
\* with the capture thread.
C34_ReadsWholeAndMonotonic ==
    /\ ring.write_index \in 0..(RING_BUFFER_SIZE - 1)
    /\ \A i \in 1..Len(ring.returned) : ring.returned[i] \in ring.stored
    /\ \A i \in 1..Len(ring.returned) : \A j \in i..Len(ring.returned) :
          TimeLeq(ring.returned[i], ring.returned[j])

\* C35: the width and height with which the render thread imports a descriptor
\* are those of the buffer the descriptor was exported from, and every
\* descriptor placed in the slot is followed by an advance of the
\* frame-available signal.
C35_ImportSizeAndSignal ==
    [][/\ (r_pc = "rf_import" /\ r_local.dmabuf_fd >= 0 /\ r_pc' # "rf_import")
             => /\ r_local.width = FbWidth(r_local.fb_id)
                /\ r_local.height = FbHeight(r_local.fb_id)
       /\ (c_pc = "c_write_frame" /\ c_pc' = "c_loop")
             => frame_buffer'.frame_count = frame_buffer.frame_count + 1]_vars

\* C36: every offset the reader dereferences lies inside the mapped size; on a
\* segment shorter than 186 bytes either init_imu_reader fails or every read
\* returns absent.
C36_ReadsInsideMapping ==
    /\ segment.mapped => segment.reach < segment.shm_size
    /\ (segment.pc # "s_init" /\ segment.st_size < ShmSize)
          => \/ ~segment.mapped
             \/ (~segment.imu.valid /\ ~segment.config.valid)

\* the positions of the render thread between line 110 / 162 and the unlock
InReaderSection == locks.r_pc \in {"ri_enabled", "ri_parity", "ri_copy",
                                   "rc_enabled", "rc_parity", "rc_copy"}

\* C37: every acquisition of the reader lock or of the handoff lock is released
\* on every path before the function returns, no thread holds both locks, no
\* thread acquires a lock it holds, and the threads never deadlock on them.
C37_LocksPairedNoDeadlock ==
    /\ locks.reader_lock = "render" <=> InReaderSection
    /\ locks.reader_lock \in {"none", "render"}
    /\ locks.dmabuf_mutex = "render" <=> locks.r_pc = "rf_locked"
    /\ locks.dmabuf_mutex = "capture" <=> locks.c_pc = "c_locked"
    /\ ~(locks.reader_lock = "render" /\ locks.dmabuf_mutex = "render")
    /\ locks.r_pc \in {"ri_lock", "rc_lock"} => locks.reader_lock # "render"
    /\ locks.r_pc = "rf_lock" => locks.dmabuf_mutex # "render"
    /\ locks.c_pc = "c_lock" => locks.dmabuf_mutex # "capture"
    /\ \/ locks.c_pc = "c_done" /\ locks.r_pc = "r_done"
       \/ ENABLED LocksNext

\* read_latest_imu has returned on a parity mismatch, read_device_config on a
\* disabled segment, and the capture thread waits for the handoff lock that
\* the render thread holds
C37_Witness ==
    /\ locks.imu_path = "parity"
    /\ locks.config_path = "disabled"
    /\ locks.r_pc = "rf_locked"
    /\ locks.c_pc = "c_lock"
    /\ locks.reader_lock = "none"

\* C38: the tuple (descriptor, fb_id, format, stride, modifier) the render
\* thread takes from the slot in one consume comes from one single publish.
C38_TupleFromOnePublish ==
    (slot.consumed /\ slot.taken.current_dmabuf_fd # 0)
       => \A i \in 1..SlotFieldCount :
             slot.taken[SlotFields[i]] = slot.taken.current_dmabuf_fd

\* the second publish has been consumed while the third is being stored
C38_Witness ==
    /\ slot.consumed
    /\ slot.taken.current_dmabuf_fd = 2
    /\ slot.c_pc = "c_store"
    /\ slot.publishes = 3
    /\ slot.c_next = 3

\* the image frame_egl_image names exists
CurrentImageLive ==
    /\ render_thread.frame_egl_image # EGL_NO_IMAGE_KHR
    /\ egl_images[render_thread.frame_egl_image].state = "live"

\* main between the return of cleanup_dmabuf_texture and the end
AfterCleanupTexture == m_pc \in {"m_cr_ctx", "m_cc_join", "m_cc_drm", "m_imu"}

\* C39: after any call to import_dmabuf_as_texture frame_egl_image is
\* EGL_NO_IMAGE_KHR or an image that is still live, so that no image is
\* destroyed twice, and after cleanup_dmabuf_texture no imported image remains
\* live.
C39_NoDanglingImage ==
    /\ render_thread.frame_egl_image # EGL_NO_IMAGE_KHR => CurrentImageLive
    /\ AfterCleanupTexture => LiveImages = {}

\* C40: frame_texture != 0 implies that a live imported image is bound to it,
\* also after an import whose bind step failed, and a draw call is issued only
\* with shader_program, vao and frame_texture set and that image bound.
C40_DrawOnlyWithLiveImage ==
    [][/\ (r_pc' \notin {"r_idle", "r_done"} /\ render_thread'.frame_texture # 0)
             => CurrentImageLive'
       /\ (r_pc = "rf_draw" /\ last_draw'.drawn)
             => /\ render_thread.shader_program # 0
                /\ render_thread.vao # 0
                /\ render_thread.frame_texture # 0
                /\ CurrentImageLive]_vars

====
